---- MODULE Spec2Model ----
(***************************************************************************)
(* Model of t-mart/ispee.                                                  *)
(*                                                                         *)
(* SpecProbe: one invocation of prober.probe.icmp_ping_probe or            *)
(* prober.probe.tcp_syn_ack_probe, with the SocketTimeoutPool it owns.     *)
(*                                                                         *)
(* Time (time.perf_counter, timeout_seconds) is counted in integer ticks.  *)
(* The 32-bit TCP sequence space is scaled to SeqBits bits; the arithmetic *)
(* keeps its modulus.  struct.pack("!d") is an 8-byte big-endian encoding  *)
(* of the tick count.                                                      *)
(*                                                                         *)
(* SpecS33: the calls of one S33Scraper (ispee.s33, prober.s33).           *)
(* SpecJobs: the MetricJob loops on the event loop's clock (ispee.jobs).   *)
(* SpecGroup: one run of ispee.__main__.main, from the configuration file  *)
(* to the exit of the task group, with the metrics the jobs record;        *)
(* SpecGroupFair adds the fairness of the event loop.                      *)
(***************************************************************************)
EXTENDS Integers, Sequences, FiniteSets, TLC

\* ---------------------------------------------------------------- bounds
MaxBudget == 3
MaxClock == 3
MaxOverhead == 1
MaxScopes == 3
MaxOrigin == 1
MaxAttempts == 2
MaxRecords == 2
MaxCalls == 2
MaxRelogins == 2
MillisMod == 2
MaxTime == 5
MaxFires == 3
MaxPeriod == 2
MaxPings == 2
SeqBits == 2

\* ------------------------------------------------------ program constants
IdBits == 16
IPPROTO_ICMP == 1
IPPROTO_TCP == 6
IPPROTO_UDP == 17
HTTP_OK == 200
HTTP_NOT_FOUND == 404
ECHO_REQUEST == 8
PayloadLen == 8
ByteBase == 256

SeqMod == 2 ^ SeqBits
IdMod == 2 ^ IdBits

VARIABLES
    kind,                  \* which probe function was called
    identifier,            \* icmp_ping_probe argument
    sequence_number,       \* argument of both probes
    acknowledgment_number, \* tcp_syn_ack_probe argument
    timeout_seconds,       \* argument of both probes
    clock,                 \* time.perf_counter()
    sock,                  \* the raw socket: state, timeout and identity
    seconds_left,          \* SocketTimeoutPool.seconds_left
    start,                 \* limit(): local `start`
    tx_payload,            \* icmp: payload of tx_dgram
    tx_time,               \* tcp: tx_time
    sent,                  \* datagrams handed to sock.sendto, in order
    rx_packet,             \* last packet returned by sock.recv
    rx_time,               \* dgram_recv_time / rx_time
    outcome,               \* how the call ended
    pc,                    \* position in the probe function
    spent,                 \* history: time inside the scopes that exited normally
    scopes,                \* history: number of scopes that exited normally
    matched                \* history: packets received that passed the match test

vars == <<kind, identifier, sequence_number, acknowledgment_number,
          timeout_seconds, clock, sock, seconds_left, start, tx_payload,
          tx_time, sent, rx_packet, rx_time, outcome, pc, spent, scopes,
          matched>>

args == <<kind, identifier, sequence_number, acknowledgment_number,
          timeout_seconds>>

\* SpecS33: one S33Scraper object (ispee.s33 and its predecessor prober.s33)
\* over successive get_channel_info calls
VARIABLES
    variant,               \* which of the two s33.py files runs
    _auth_uid_private_key, \* S33Scraper._auth_uid_private_key
    s33_pc,                \* the await get_channel_info / _login is suspended at
    depth,                 \* nesting of get_channel_info inside itself
    relogins,              \* 404 answers met by the current call
    challenge_params,      \* _login: challenge_params
    request,               \* the request last posted
    response,              \* the response last received
    result,                \* how the last get_channel_info call ended
    caught,                \* exception caught by get_channel_info's except clause
    calls                  \* get_channel_info calls made so far

s33vars == <<variant, _auth_uid_private_key, s33_pc, depth, relogins,
             challenge_params, request, response, result, caught, calls>>

\* SpecJobs: the MetricJob loops of one process on the event loop's clock
VARIABLES
    time,                  \* anyio.current_time()
    job_pc,                \* per job: where loop() is suspended
    periodic_now,          \* per job: periodic's local `now`
    frequency_seconds,     \* per job: MetricJob.frequency_seconds
    fired,                 \* per job: the times measure() was started
    finished,              \* per job: the times measure() ended
    unhandled              \* per job: its latest measure() raised, loop() logged

jobvars == <<time, job_pc, periodic_now, frequency_seconds, fired, finished,
             unhandled>>

\* SpecGroup: one run of main(), from the configuration file to the exit of
\* the task group, with the metrics the jobs record
VARIABLES
    config_obj,            \* yaml.safe_load(config_file)
    config,                \* main's `config`
    main_pc,               \* where main() is
    main_error,            \* the exception main() ended with
    task_pc,               \* per task of the group: where it is suspended
    cancel_called,         \* task_group.cancel_scope.cancel() was called
    fires,                 \* per job: the measure() calls loop() has made
    awaited,               \* per job: how its latest network operation ended
    probed,                \* per job: what measure() got from its probe
    measured,              \* per job: how its latest measure() ended
    PING_DURATION_SECONDS_HISTOGRAM,   \* per ping job: the observations
    PING_FAILURE_COUNTER,  \* per ping job
    PING_COUNTER,          \* per ping job
    CHANNEL_GAUGES,        \* the four gauges' values, one record per label set
    INFO                   \* IPJob.INFO

metricvars == <<PING_DURATION_SECONDS_HISTOGRAM, PING_FAILURE_COUNTER,
                PING_COUNTER, CHANNEL_GAUGES, INFO>>

groupvars == <<config_obj, config, main_pc, main_error, task_pc, cancel_called,
               fires, awaited, probed, measured, metricvars>>

\* the variables of the specifications other than SpecProbe
outside == <<s33vars, jobvars, groupvars>>

allvars == <<vars, outside>>

\* Python's None, for values that are otherwise tuples or records
None == <<>>
NoResult == [kind |-> "none"]
NoResponse == [neterr |-> FALSE, status |-> 0]

\* s33.py:137-145, a scraper that has not been used
S33Fresh ==
    /\ _auth_uid_private_key = None
    /\ s33_pc = "idle"
    /\ depth = 0
    /\ relogins = 0
    /\ challenge_params = None
    /\ request = None
    /\ response = NoResponse
    /\ result = NoResult
    /\ caught = None
    /\ calls = 0

Jobs == {"ping", "modem"}

\* jobs.py:33-41, jobs whose loop() has not run yet
JobsFresh ==
    /\ time = 0
    /\ job_pc = [j \in Jobs |-> "start"]
    /\ periodic_now = [j \in Jobs |-> 0]
    /\ fired = [j \in Jobs |-> <<>>]
    /\ finished = [j \in Jobs |-> <<>>]
    /\ unhandled = [j \in Jobs |-> FALSE]

\* jobs.py:83, 96 the `type` label of a ping job; one S33ScrapeJob, one IPJob
PingJobs == {"icmp-ping", "udp-dns-ping", "tcp-dns-ping"}
GroupJobs == PingJobs \cup {"s33", "ip"}
\* __main__.py:96-98
Tasks == {"start_prometheus_server"} \cup GroupJobs

\* jobs.py:59-73, 128-161, 217-219: the metrics as the module creates them
MetricsFresh ==
    /\ PING_DURATION_SECONDS_HISTOGRAM = [j \in PingJobs |-> <<>>]
    /\ PING_FAILURE_COUNTER = [j \in PingJobs |-> 0]
    /\ PING_COUNTER = [j \in PingJobs |-> 0]
    /\ CHANNEL_GAUGES = {}
    /\ INFO = None

\* no main() is running: there is no task group and nothing was recorded
GroupUnused ==
    /\ config_obj = None
    /\ config = None
    /\ main_pc = "get_config"
    /\ main_error = None
    /\ task_pc = None
    /\ cancel_called = FALSE
    /\ fires = None
    /\ awaited = None
    /\ probed = None
    /\ measured = None
    /\ PING_DURATION_SECONDS_HISTOGRAM = None
    /\ PING_FAILURE_COUNTER = None
    /\ PING_COUNTER = None
    /\ CHANNEL_GAUGES = {}
    /\ INFO = None

\* __main__.py:67-94, main() is about to read its configuration
GroupFresh ==
    /\ config = None
    /\ main_pc = "get_config"
    /\ main_error = None
    /\ task_pc = [t \in Tasks |-> "absent"]
    /\ cancel_called = FALSE
    /\ fires = [j \in GroupJobs |-> 0]
    /\ awaited = [j \in GroupJobs |-> None]
    /\ probed = [j \in GroupJobs |-> None]
    /\ measured = [j \in GroupJobs |-> None]
    /\ MetricsFresh

\* ------------------------------------------------------------- data
NoPacket == [proto |-> 0]
NoOutcome == [kind |-> "none"]
NoTimeout == -1
Host == "host"
Sources == {Host, "other"}
TcpFlags == {"SA", "RA", "SAE"}
IcmpTypes == {0, 3}
IcmpCodes == {0, 1}

\* probe.py:27-29, random.randint(0, 2^n_bits - 1) drawn at the two ends of its range
_randint_bits(n_bits) == {0, (2 ^ n_bits) - 1}

RECURSIVE PackBytes(_, _)
PackBytes(t, n) ==
    IF n = 0 THEN <<>> ELSE Append(PackBytes(t \div ByteBase, n - 1), t % ByteBase)

\* struct.pack("!d", t): PayloadLen bytes, most significant first
Pack(t) == PackBytes(t, PayloadLen)

RECURSIVE UnpackBytes(_, _)
UnpackBytes(s, acc) ==
    IF s = <<>> THEN acc ELSE UnpackBytes(Tail(s), acc * ByteBase + Head(s))

\* struct.unpack("!d", b)[0]; defined for exactly PayloadLen bytes
Unpack(s) == UnpackBytes(s, 0)

UnpackFails(s) == Len(s) # PayloadLen

\* ------------------------------------------------- SocketTimeoutPool
\* probe.py:86
RefusedLoose(left) == left < 0
Refused(left) == left <= 0

\* probe.py:91
ScopeStartStale(now, old) == old
ScopeStart(now, old) == now

\* probe.py:89, the argument of sock.settimeout
SocketTimeoutWhole(left) == timeout_seconds
SocketTimeout(left) == left

\* probe.py:93-96, what leaves the scope when the wrapped call raised
limit_except_passes(raised) == raised
limit_except(raised) ==
    IF raised.kind = "TimeoutError"
    THEN [kind |-> "ProbeTimeout", cause |-> "TimeoutError"]
    ELSE raised

\* probe.py:98
DeductAdd(left, elapsed) == left + elapsed
DeductNothing(left, elapsed) == left
Deduct(left, elapsed) == left - elapsed

\* time one blocking socket call may take under socket timeout t
OpDurations(t) == 0 .. (t + MaxOverhead)
TimeoutDurations(t) == t .. (t + MaxOverhead)

\* the `with socket.socket(...) as sock` exit that every raise and return passes
LeftOpen == sock
Closed == [sock EXCEPT !.state = "closed"]

Finish(o) ==
    /\ outcome' = o
    /\ pc' = "done"
    /\ sock' = Closed

\* limit(): lines 86-91, up to the yield; at most `most` scopes are followed
LimitEnterWithin(here, inside, most) ==
    /\ pc = here
    /\ scopes < most
    /\ IF Refused(seconds_left)
       THEN /\ Finish([kind |-> "ProbeTimeout", cause |-> "none"])
            /\ UNCHANGED start
       ELSE /\ sock' = [sock EXCEPT !.timeout = SocketTimeout(seconds_left)]
            /\ start' = ScopeStart(clock, start)
            /\ pc' = inside
            /\ UNCHANGED outcome
    /\ UNCHANGED <<args, outside, clock, seconds_left, tx_payload, tx_time, sent,
                   rx_packet, rx_time, spent, scopes, matched>>

LimitEnter(here, inside) == LimitEnterWithin(here, inside, MaxScopes)

\* limit(): line 98, the wrapped call returned after d ticks; the clock is
\* followed up to `horizon`
LimitExitWithin(d, after, horizon) ==
    /\ clock + d <= horizon
    /\ clock' = clock + d
    /\ seconds_left' = Deduct(seconds_left, clock' - start)
    /\ spent' = spent + d
    /\ scopes' = scopes + 1
    /\ pc' = after
    /\ UNCHANGED <<args, outside, sock, start, tx_payload, tx_time, rx_time, outcome,
                   matched>>

LimitExit(d, after) == LimitExitWithin(d, after, MaxClock)

\* limit(): lines 95-96, the wrapped call raised TimeoutError after d ticks
LimitTimeoutWithin(inside, horizon) ==
    /\ pc = inside
    /\ \E d \in TimeoutDurations(sock.timeout) :
          /\ clock + d <= horizon
          /\ clock' = clock + d
    /\ Finish(limit_except([kind |-> "TimeoutError"]))
    /\ UNCHANGED <<args, outside, seconds_left, start, tx_payload, tx_time, sent,
                   rx_packet, rx_time, spent, scopes, matched>>

LimitTimeout(inside) == LimitTimeoutWithin(inside, MaxClock)

\* limit(): the wrapped call raised something else, which passes the except clause
LimitErrorWithin(inside, horizon) ==
    /\ pc = inside
    /\ \E d \in OpDurations(sock.timeout) :
          /\ clock + d <= horizon
          /\ clock' = clock + d
    /\ Finish(limit_except([kind |-> "OSError"]))
    /\ UNCHANGED <<args, outside, seconds_left, start, tx_payload, tx_time, sent,
                   rx_packet, rx_time, spent, scopes, matched>>

LimitError(inside) == LimitErrorWithin(inside, MaxClock)

\* time passing while the probe runs its own code, outside every scope
Tick ==
    /\ pc \in {"send_limit", "recv_limit", "process"}
    /\ clock < MaxClock
    /\ clock' = clock + 1
    /\ UNCHANGED <<args, outside, sock, seconds_left, start, tx_payload, tx_time, sent,
                   rx_packet, rx_time, outcome, pc, spent, scopes, matched>>

\* ------------------------------------------------------------ ICMP probe
\* probe.py:143-145
IcmpRequest ==
    [proto |-> IPPROTO_ICMP, type |-> ECHO_REQUEST, code |-> 0,
     id |-> identifier, seq |-> sequence_number, payload |-> tx_payload]

\* what the network may hand to recv on a raw ICMP socket
IcmpPackets ==
    [proto : {IPPROTO_ICMP},
     id : {identifier, (identifier + 1) % IdMod},
     seq : {sequence_number, (sequence_number + 1) % IdMod},
     type : IcmpTypes, code : IcmpCodes,
     payload : {tx_payload, Pack(Unpack(tx_payload) + 1), <<0>>}]
    \cup {[proto |-> IPPROTO_UDP]}

\* probe.py:178
IcmpMismatchBoth(pkt, id, seq) == pkt.id # id /\ pkt.seq # seq
IcmpMismatch(pkt, id, seq) == pkt.id # id \/ pkt.seq # seq

\* probe.py:182
IcmpSuccessTypeOnly(pkt) == pkt.type = 0
IcmpSuccess(pkt) == pkt.type = 0 /\ pkt.code = 0

\* probe.py:184-185
IcmpDurationFromTx(recv_time, payload) == recv_time - Unpack(tx_payload)
IcmpDuration(recv_time, payload) == recv_time - Unpack(payload)

\* probe.py:130-145
IcmpOpen ==
    /\ pc = "call"
    /\ kind = "icmp"
    /\ sock' = [state |-> "open", timeout |-> NoTimeout, id |-> sock.id]
    /\ seconds_left' = timeout_seconds
    /\ tx_payload' = Pack(clock)
    /\ pc' = "send_limit"
    /\ UNCHANGED <<args, outside, clock, start, tx_time, sent, rx_packet, rx_time,
                   outcome, spent, scopes, matched>>

\* probe.py:150
IcmpSend ==
    /\ kind = "icmp"
    /\ pc = "send_op"
    /\ \E d \in OpDurations(sock.timeout) : LimitExit(d, "recv_limit")
    /\ sent' = Append(sent, IcmpRequest)
    /\ UNCHANGED rx_packet

\* probe.py:160
IcmpRecv ==
    /\ kind = "icmp"
    /\ pc = "recv_op"
    /\ \E d \in OpDurations(sock.timeout) : LimitExit(d, "process")
    /\ \E pkt \in IcmpPackets : rx_packet' = pkt
    /\ UNCHANGED sent

\* probe.py:163-190
IcmpProcess ==
    /\ kind = "icmp"
    /\ pc = "process"
    /\ rx_time' = clock
    /\ IF rx_packet.proto # IPPROTO_ICMP
       THEN /\ pc' = "recv_limit"
            /\ UNCHANGED <<outcome, sock, matched>>
       ELSE IF IcmpMismatch(rx_packet, identifier, sequence_number)
       THEN /\ pc' = "recv_limit"
            /\ UNCHANGED <<outcome, sock, matched>>
       ELSE /\ matched' = matched + 1
            /\ IF IcmpSuccess(rx_packet)
               THEN IF UnpackFails(rx_packet.payload)
                    THEN Finish([kind |-> "struct.error"])
                    ELSE Finish([kind |-> "return",
                                 value |-> IcmpDuration(rx_time', rx_packet.payload)])
               ELSE Finish([kind |-> "ICMPError", type |-> rx_packet.type,
                            code |-> rx_packet.code])
    /\ UNCHANGED <<args, outside, clock, seconds_left, start, tx_payload, tx_time, sent,
                   rx_packet, spent, scopes>>

\* ------------------------------------------------------------- TCP probe
\* probe.py:232-237
TcpRequest ==
    [proto |-> IPPROTO_TCP, dst |-> Host, flags |-> "S",
     seq |-> sequence_number, ack |-> acknowledgment_number]

\* probe.py:274
ExpSeq == acknowledgment_number

\* probe.py:275
ExpAck == (sequence_number + 1) % SeqMod

\* what the network may hand to recv on a raw TCP socket
TcpPackets ==
    [proto : {IPPROTO_TCP}, src : Sources,
     seq : {ExpSeq, (ExpSeq + 1) % SeqMod},
     ack : {ExpAck, sequence_number},
     flags : TcpFlags]
    \cup {[proto |-> IPPROTO_UDP]}

\* probe.py:276
TcpDiscard(pkt, exp_seq, exp_ack) == pkt.seq # exp_seq /\ pkt.ack # exp_ack

\* probe.py:280
TcpSynAckLoose(flags) == flags \in {"SA", "SAE"}
TcpSynAck(flags) == flags = "SA"

\* probe.py:281
TcpDurationSwapped(recv_time, send_time) == send_time - recv_time
TcpDuration(recv_time, send_time) == recv_time - send_time

\* probe.py:222-247
TcpOpen ==
    /\ pc = "call"
    /\ kind = "tcp"
    /\ sock' = [state |-> "open", timeout |-> NoTimeout, id |-> sock.id]
    /\ seconds_left' = timeout_seconds
    /\ tx_time' = clock
    /\ pc' = "send_limit"
    /\ UNCHANGED <<args, outside, clock, start, tx_payload, sent, rx_packet, rx_time,
                   outcome, spent, scopes, matched>>

\* probe.py:250
TcpSend ==
    /\ kind = "tcp"
    /\ pc = "send_op"
    /\ \E d \in OpDurations(sock.timeout) : LimitExit(d, "recv_limit")
    /\ sent' = Append(sent, TcpRequest)
    /\ UNCHANGED rx_packet

\* probe.py:255
TcpRecv ==
    /\ kind = "tcp"
    /\ pc = "recv_op"
    /\ \E d \in OpDurations(sock.timeout) : LimitExit(d, "process")
    /\ \E pkt \in TcpPackets : rx_packet' = pkt
    /\ UNCHANGED sent

\* probe.py:258-287, with the handshake completed by an ACK on a SYN-ACK
TcpProcessAcking ==
    /\ kind = "tcp"
    /\ pc = "process"
    /\ rx_time' = clock
    /\ IF rx_packet.proto # IPPROTO_TCP \/ rx_packet.src # Host
          \/ TcpDiscard(rx_packet, ExpSeq, ExpAck)
       THEN /\ pc' = "recv_limit"
            /\ UNCHANGED <<outcome, sock, matched, sent>>
       ELSE /\ matched' = matched + 1
            /\ IF TcpSynAck(rx_packet.flags)
               THEN /\ Finish([kind |-> "return",
                               value |-> TcpDuration(rx_time', tx_time)])
                    /\ sent' = Append(sent, [TcpRequest EXCEPT !.flags = "A"])
               ELSE /\ Finish([kind |-> "TCPError", flags |-> rx_packet.flags])
                    /\ UNCHANGED sent
    /\ UNCHANGED <<args, outside, clock, seconds_left, start, tx_payload, tx_time,
                   rx_packet, spent, scopes>>

\* probe.py:258-287
TcpProcess ==
    /\ kind = "tcp"
    /\ pc = "process"
    /\ rx_time' = clock
    /\ IF rx_packet.proto # IPPROTO_TCP
       THEN /\ pc' = "recv_limit"
            /\ UNCHANGED <<outcome, sock, matched>>
       ELSE IF rx_packet.src # Host
       THEN /\ pc' = "recv_limit"
            /\ UNCHANGED <<outcome, sock, matched>>
       ELSE IF TcpDiscard(rx_packet, ExpSeq, ExpAck)
       THEN /\ pc' = "recv_limit"
            /\ UNCHANGED <<outcome, sock, matched>>
       ELSE /\ matched' = matched + 1
            /\ IF TcpSynAck(rx_packet.flags)
               THEN Finish([kind |-> "return",
                            value |-> TcpDuration(rx_time', tx_time)])
               ELSE Finish([kind |-> "TCPError", flags |-> rx_packet.flags])
    /\ UNCHANGED <<args, outside, clock, seconds_left, start, tx_payload, tx_time, sent,
                   rx_packet, spent, scopes>>

\* prometheus.py:112, the job calls its probe function again: new random
\* identifiers, a new socket, a new pool; perf_counter is re-based
ProbeAgain ==
    /\ pc = "done"
    /\ sock.id < MaxAttempts
    /\ identifier' \in (IF kind = "icmp" THEN _randint_bits(IdBits) ELSE {0})
    /\ sequence_number' \in
          (IF kind = "icmp" THEN _randint_bits(IdBits) ELSE _randint_bits(SeqBits))
    /\ acknowledgment_number' \in
          (IF kind = "icmp" THEN {0} ELSE _randint_bits(SeqBits))
    /\ clock' = 0
    /\ sock' = [state |-> "unopened", timeout |-> NoTimeout, id |-> sock.id + 1]
    /\ start' = 0
    /\ tx_payload' = <<>>
    /\ tx_time' = 0
    /\ sent' = <<>>
    /\ rx_packet' = NoPacket
    /\ rx_time' = 0
    /\ outcome' = NoOutcome
    /\ pc' = "call"
    /\ spent' = 0
    /\ scopes' = 0
    /\ matched' = 0
    /\ seconds_left' = 0
    /\ UNCHANGED <<kind, timeout_seconds, outside>>

\* ---------------------------------------------------------- specification
SendLimit == LimitEnter("send_limit", "send_op")
RecvLimit == LimitEnter("recv_limit", "recv_op")
SendTimeout == LimitTimeout("send_op")
RecvTimeout == LimitTimeout("recv_op")
SendError == LimitError("send_op")
RecvError == LimitError("recv_op")

ProbeInit ==
    /\ kind \in {"icmp", "tcp"}
    /\ identifier \in (IF kind = "icmp" THEN _randint_bits(IdBits) ELSE {0})
    /\ sequence_number \in
          (IF kind = "icmp" THEN _randint_bits(IdBits)
                            ELSE _randint_bits(SeqBits))
    /\ acknowledgment_number \in
          (IF kind = "icmp" THEN {0} ELSE _randint_bits(SeqBits))
    /\ timeout_seconds \in 1 .. MaxBudget
    /\ clock \in 0 .. MaxOrigin
    /\ sock = [state |-> "unopened", timeout |-> NoTimeout, id |-> 1]
    /\ seconds_left = 0
    /\ start = 0
    /\ tx_payload = <<>>
    /\ tx_time = 0
    /\ sent = <<>>
    /\ rx_packet = NoPacket
    /\ rx_time = 0
    /\ outcome = NoOutcome
    /\ pc = "call"
    /\ spent = 0
    /\ scopes = 0
    /\ matched = 0
    /\ variant = "ispee"
    /\ S33Fresh
    /\ frequency_seconds = [j \in Jobs |-> 1]
    /\ JobsFresh
    /\ GroupUnused

ProbeNext ==
    \/ Tick
    \/ IcmpOpen
    \/ TcpOpen
    \/ SendLimit
    \/ RecvLimit
    \/ IcmpSend
    \/ TcpSend
    \/ SendTimeout
    \/ SendError
    \/ IcmpRecv
    \/ TcpRecv
    \/ RecvTimeout
    \/ RecvError
    \/ IcmpProcess
    \/ TcpProcess
    \/ ProbeAgain

SpecProbe == ProbeInit /\ [][ProbeNext]_vars

\* ------------------------------------------------------------ properties
InScope == pc \in {"send_op", "recv_op"}
AtLimit == pc \in {"send_limit", "recv_limit"}
PoolExists == sock.state # "unopened"
RefusedOutcome == [kind |-> "ProbeTimeout", cause |-> "none"]
TranslatedOutcome == [kind |-> "ProbeTimeout", cause |-> "TimeoutError"]

\* C1: with initial budget b > 0, after any sequence of limit() scopes that
\* exited normally having spent t_1..t_n inside them, seconds_left equals
\* b - (t_1 + ... + t_n); time outside the scopes is not deducted and no
\* scope is deducted twice.
C1_BudgetIsInitialMinusSpent ==
    PoolExists => seconds_left = timeout_seconds - spent

\* two scopes exited normally, time was spent inside them and time also
\* passed between them
C1_Witness ==
    /\ kind = "tcp"
    /\ outcome = NoOutcome
    /\ scopes = 2
    /\ spent >= 2
    /\ clock - tx_time > spent
    /\ seconds_left = timeout_seconds - spent

\* C2: entering a limit() scope with seconds_left <= 0 raises ProbeTimeout
\* before the socket's timeout is set and before any send or recv, and
\* leaves seconds_left unchanged; so no socket call ever runs in a scope
\* entered without budget.
C2_ExhaustedBudgetRefuses ==
    /\ [](InScope => sock.timeout > 0)
    /\ [][(AtLimit /\ seconds_left <= 0 /\ pc' # pc) =>
            /\ outcome' = RefusedOutcome
            /\ pc' = "done"
            /\ sock'.timeout = sock.timeout
            /\ sent' = sent
            /\ rx_packet' = rx_packet
            /\ scopes' = scopes
            /\ seconds_left' = seconds_left]_vars

\* a receive scope was refused with the budget exactly used up
C2_Witness ==
    /\ outcome = RefusedOutcome
    /\ seconds_left <= 0
    /\ scopes >= 1

\* C3 (as claimed): on every exit of a limit() scope, also when the wrapped
\* call raised, the time measured inside the scope is subtracted from
\* seconds_left.
C3_EveryExitDeducts ==
    [][(InScope /\ pc' # pc) => seconds_left' = seconds_left - (clock' - start)]_vars

\* C4: seconds_left never increases during one probe attempt, whether a
\* scope succeeds, raises or is refused.
C4_BudgetNeverIncreases ==
    [][(PoolExists /\ sock'.id = sock.id) => seconds_left' <= seconds_left]_vars

\* the budget went down over scopes that succeeded and the attempt then
\* ended in a scope that raised
C4_Witness ==
    /\ outcome = TranslatedOutcome
    /\ scopes >= 1
    /\ seconds_left < timeout_seconds

\* C5: in the ICMP receive loop a packet that is not ICMP, or whose
\* identifier or sequence number differs from the request's, never makes
\* the probe return or raise ICMPError: the probe goes back to receiving;
\* a duration or an ICMPError only ever comes from a packet matching both.
IcmpMatching ==
    /\ rx_packet.proto = IPPROTO_ICMP
    /\ rx_packet.id = identifier
    /\ rx_packet.seq = sequence_number

C5_IcmpForeignReplyKeepsWaiting ==
    /\ []((kind = "icmp" /\ outcome.kind \in {"return", "ICMPError", "struct.error"})
            => IcmpMatching)
    /\ [][(kind = "icmp" /\ pc = "process" /\ pc' # pc /\ ~IcmpMatching) =>
            (pc' = "recv_limit" /\ outcome' = NoOutcome /\ sock'.state = "open")]_vars

\* an echo reply with the right identifier and a wrong sequence number was
\* discarded and the probe is about to receive again
C5_Witness ==
    /\ kind = "icmp"
    /\ pc = "recv_limit"
    /\ rx_packet.proto = IPPROTO_ICMP
    /\ rx_packet.id = identifier
    /\ rx_packet.seq # sequence_number
    /\ rx_packet.type = 0
    /\ rx_packet.code = 0

\* C6: a received packet with matching identifier and sequence number and
\* type 0, code 0, carrying a send timestamp, makes the probe return exactly
\* (time read right after that receive) - (timestamp in the reply payload);
\* the first matching packet ends the probe.
C6_IcmpDurationIsRecvMinusEmbedded ==
    /\ []((kind = "icmp" /\ outcome.kind = "return") =>
            /\ outcome.value = rx_time - Unpack(rx_packet.payload)
            /\ IcmpMatching
            /\ rx_packet.type = 0 /\ rx_packet.code = 0
            /\ matched = 1)
    /\ [][(kind = "icmp" /\ pc = "process" /\ pc' # pc /\ IcmpMatching) =>
            /\ pc' = "done"
            /\ (rx_packet.type = 0 /\ rx_packet.code = 0
                 /\ Len(rx_packet.payload) = PayloadLen) =>
                   outcome' = [kind |-> "return",
                               value |-> clock - Unpack(rx_packet.payload)]]_vars

\* the probe returned on a reply whose embedded timestamp is not the one it
\* sent, after discarding an earlier packet
C6_Witness ==
    /\ kind = "icmp"
    /\ outcome.kind = "return"
    /\ rx_packet.payload # tx_payload
    /\ scopes = 3
    /\ rx_time > Unpack(tx_payload)

\* C7: a received packet with matching identifier and sequence number whose
\* (type, code) is not (0, 0) makes the probe raise ICMPError carrying that
\* type and code, without waiting for a later reply.
C7_IcmpOtherTypeCodeFails ==
    [][(kind = "icmp" /\ pc = "process" /\ pc' # pc /\ IcmpMatching
        /\ <<rx_packet.type, rx_packet.code>> # <<0, 0>>) =>
          /\ pc' = "done"
          /\ outcome' = [kind |-> "ICMPError", type |-> rx_packet.type,
                         code |-> rx_packet.code]]_vars

\* ICMPError raised for type 0 with a non-zero code
C7_Witness ==
    /\ kind = "icmp"
    /\ outcome = [kind |-> "ICMPError", type |-> 0, code |-> 1]

\* C8 (as claimed): a TCP segment from the target host is discarded unless
\* both its seq and its ack match the expected values; a segment in which
\* only one of the two matches is discarded.
TcpFromHost == rx_packet.proto = IPPROTO_TCP /\ rx_packet.src = Host

TcpMatching ==
    /\ TcpFromHost
    /\ rx_packet.seq = acknowledgment_number
    /\ rx_packet.ack = (sequence_number + 1) % SeqMod

C8_TcpPartialMatchDiscarded ==
    [][(kind = "tcp" /\ pc = "process" /\ pc' # pc /\ TcpFromHost /\ ~TcpMatching) =>
          (pc' = "recv_limit" /\ outcome' = NoOutcome)]_vars

\* C9: a segment from the target host with ack = (sequence_number + 1) mod
\* 2^32 and seq = acknowledgment_number makes the probe raise TCPError with
\* the observed flags when they are not exactly SYN+ACK, and return the time
\* elapsed since tx_time when they are.
C9_TcpMatchingReplyDecidesByFlags ==
    [][(kind = "tcp" /\ pc = "process" /\ pc' # pc /\ TcpMatching) =>
          /\ pc' = "done"
          /\ outcome' = IF rx_packet.flags = "SA"
                         THEN [kind |-> "return", value |-> clock - tx_time]
                         ELSE [kind |-> "TCPError", flags |-> rx_packet.flags]]_vars

\* TCPError for a SYN+ACK that carries a further flag, with the expected
\* ack wrapped around to 0
C9_Witness ==
    /\ kind = "tcp"
    /\ outcome = [kind |-> "TCPError", flags |-> "SAE"]
    /\ sequence_number = SeqMod - 1
    /\ rx_packet.ack = 0
    /\ rx_packet.seq = acknowledgment_number

\* C10: one TCP probe invocation hands at most one segment to sendto, the
\* SYN; on every path that follows the send (SYN-ACK, TCPError, discarded
\* replies, timeout) exactly that one segment has been sent and no ACK.
C10_TcpSendsOnlyTheSyn ==
    kind = "tcp" =>
        /\ Len(sent) <= 1
        /\ \A i \in 1 .. Len(sent) : sent[i] = TcpRequest /\ sent[i].flags = "S"
        /\ (scopes >= 1 \/ outcome.kind \in {"return", "TCPError"}) => Len(sent) = 1

\* the probe returned on a SYN-ACK
C10_Witness ==
    /\ kind = "tcp"
    /\ outcome.kind = "return"
    /\ rx_packet.flags = "SA"
    /\ TcpMatching
    /\ Len(sent) = 1

\* C11: each probe attempt opens its own raw socket and that socket is
\* closed on every exit path (return, protocol error, timeout, unexpected
\* exception); no socket stays open after the call and no socket serves two
\* attempts.
C11_SocketClosedOnEveryExit ==
    /\ [](pc = "done" => sock.state = "closed")
    /\ [](sock.state = "open" <=> pc \notin {"call", "done"})
    /\ [][sock'.id # sock.id =>
            (sock.state = "closed" /\ sock'.state = "unopened" /\ pc' = "call")]_vars
    /\ [][sock.state = "closed" => (sock'.state # "open" \/ sock'.id # sock.id)]_vars

\* the second attempt ended in an exception the probe does not expect and its
\* socket, not the first attempt's, is closed
C11_Witness ==
    /\ sock.id = 2
    /\ pc = "done"
    /\ outcome.kind \in {"struct.error", "OSError"}
    /\ sock.state = "closed"

\* ------------------------------------------------- modem response parser
\* A channel string is a sequence of one-character strings.
Digits == <<"0", "1", "2", "3", "4", "5", "6", "7", "8", "9">>
IsDigit(c) == \E i \in 1 .. 10 : Digits[i] = c
DigitVal(c) == (CHOOSE i \in 1 .. 10 : Digits[i] = c) - 1

ValueError == [ok |-> FALSE, error |-> "ValueError"]
Ok(v) == [ok |-> TRUE, value |-> v]

\* the positions at which sep occurs in s
Occurrences(s, sep) ==
    {i \in 1 .. (Len(s) - Len(sep) + 1) : SubSeq(s, i, i + Len(sep) - 1) = sep}

\* str.split(sep): cut at the leftmost occurrence of sep, then split the rest
RECURSIVE Split(_, _)
Split(s, sep) ==
    LET at == Occurrences(s, sep)
    IN  IF at = {} THEN <<s>>
        ELSE LET first == CHOOSE i \in at : \A k \in at : i <= k
             IN  <<SubSeq(s, 1, first - 1)>>
                 \o Split(SubSeq(s, first + Len(sep), Len(s)), sep)

RECURSIVE DigitsValue(_, _)
DigitsValue(s, acc) ==
    IF s = <<>> THEN acc ELSE DigitsValue(Tail(s), acc * 10 + DigitVal(Head(s)))

AllDigits(s) == \A i \in 1 .. Len(s) : IsDigit(s[i])
HasSign(s) == s # <<>> /\ Head(s) \in {"-", "+"}
Unsigned(s) == IF HasSign(s) THEN Tail(s) ELSE s
Signed(s, n) == IF HasSign(s) /\ Head(s) = "-" THEN 0 - n ELSE n

\* int(s): an optional sign and at least one decimal digit
int(s) ==
    LET u == Unsigned(s)
    IN  IF u # <<>> /\ AllDigits(u) THEN Ok(Signed(s, DigitsValue(u, 0)))
        ELSE ValueError

\* a float is num / 10^frac with no trailing zero in the fraction
RECURSIVE Normal(_)
Normal(f) ==
    IF f.frac > 0 /\ f.num % 10 = 0
    THEN Normal([num |-> f.num \div 10, frac |-> f.frac - 1])
    ELSE f

\* float(s): an optional sign, digits, at most one point, at least one digit
float(s) ==
    LET u == Unsigned(s)
        parts == Split(u, <<".">>)
    IN  IF Len(parts) = 1 /\ u # <<>> /\ AllDigits(u)
        THEN Ok([num |-> Signed(s, DigitsValue(u, 0)), frac |-> 0])
        ELSE IF Len(parts) = 2 /\ AllDigits(parts[1]) /\ AllDigits(parts[2])
                /\ parts[1] \o parts[2] # <<>>
        THEN Ok(Normal([num |-> Signed(s, DigitsValue(parts[1] \o parts[2], 0)),
                        frac |-> Len(parts[2])]))
        ELSE ValueError

DELIM_RECORD == <<"|", "+", "|">>
DELIM_FIELD == <<"^">>
DOWNSTREAM_FIELDS == 10
UPSTREAM_FIELDS == 8

\* s33.py:67-77, DownstreamChannel(...) of the converted fields; a failed
\* conversion raises before the record exists
DownstreamChannel(channel_select, lock_status, channel_type, channel_id, frequency_hz, power_dbmv, snr_db, corrected_codewords_total, uncorrectable_codewords_total) ==
    IF channel_select.ok /\ channel_id.ok /\ frequency_hz.ok /\ power_dbmv.ok
       /\ snr_db.ok /\ corrected_codewords_total.ok
       /\ uncorrectable_codewords_total.ok
    THEN Ok([channel_select |-> channel_select.value,
             lock_status |-> lock_status,
             channel_type |-> channel_type,
             channel_id |-> channel_id.value,
             frequency_hz |-> frequency_hz.value,
             power_dbmv |-> power_dbmv.value,
             snr_db |-> snr_db.value,
             corrected_codewords_total |-> corrected_codewords_total.value,
             uncorrectable_codewords_total |-> uncorrectable_codewords_total.value])
    ELSE ValueError

\* s33.py:119-127
UpstreamChannel(channel_select, lock_status, channel_type, channel_id, symbols_per_sec, frequency_hz, power_dbmv) ==
    IF channel_select.ok /\ channel_id.ok /\ symbols_per_sec.ok /\ frequency_hz.ok
       /\ power_dbmv.ok
    THEN Ok([channel_select |-> channel_select.value,
             lock_status |-> lock_status,
             channel_type |-> channel_type,
             channel_id |-> channel_id.value,
             symbols_per_sec |-> symbols_per_sec.value,
             frequency_hz |-> frequency_hz.value,
             power_dbmv |-> power_dbmv.value])
    ELSE ValueError

\* s33.py:54-77, one iteration of DownstreamChannel.parse_response
DownstreamRecordSwapped(encoded_channel) ==
    LET f == Split(encoded_channel, DELIM_FIELD)
    IN  IF Len(f) # DOWNSTREAM_FIELDS THEN ValueError
        ELSE DownstreamChannel(int(f[1]), f[2], f[3], int(f[4]), int(f[5]),
                               float(f[6]), float(f[7]), int(f[9]), int(f[8]))

DownstreamRecord(encoded_channel) ==
    LET f == Split(encoded_channel, DELIM_FIELD)
    IN  IF Len(f) # DOWNSTREAM_FIELDS THEN ValueError
        ELSE DownstreamChannel(int(f[1]), f[2], f[3], int(f[4]), int(f[5]),
                               float(f[6]), float(f[7]), int(f[8]), int(f[9]))

\* s33.py:108-127, one iteration of UpstreamChannel.parse_response
UpstreamRecord(encoded_channel) ==
    LET f == Split(encoded_channel, DELIM_FIELD)
    IN  IF Len(f) # UPSTREAM_FIELDS THEN ValueError
        ELSE UpstreamChannel(int(f[1]), f[2], f[3], int(f[4]), int(f[5]),
                             int(f[6]), float(f[7]))

\* list(parse_response(...)): the generator is run to its end and the list
\* exists only if no iteration raised (s33.py:53, 107, 380-393); `parsed` holds
\* what each iteration yields or raises
RECURSIVE CollectPartial(_)
CollectPartial(parsed) ==
    IF parsed = <<>> \/ ~Head(parsed).ok THEN Ok(<<>>)
    ELSE Ok(<<Head(parsed).value>> \o CollectPartial(Tail(parsed)).value)

Collect(parsed) ==
    IF \E i \in 1 .. Len(parsed) : ~parsed[i].ok THEN ValueError
    ELSE Ok([i \in 1 .. Len(parsed) |-> parsed[i].value])

\* s33.py:36-77
DownstreamParseSkippingEmpty(response_str) ==
    LET segments == SelectSeq(Split(response_str, DELIM_RECORD),
                              LAMBDA segment : segment # <<>>)
    IN  Collect([i \in 1 .. Len(segments) |-> DownstreamRecord(segments[i])])

DownstreamParse(response_str) ==
    LET segments == Split(response_str, DELIM_RECORD)
    IN  Collect([i \in 1 .. Len(segments) |-> DownstreamRecord(segments[i])])

\* s33.py:92-127
UpstreamParse(response_str) ==
    LET segments == Split(response_str, DELIM_RECORD)
    IN  Collect([i \in 1 .. Len(segments) |-> UpstreamRecord(segments[i])])

\* ------------------------------------------------ modem response texts
\* what the modem writes: decimal texts joined by DELIM_FIELD, a marker after
\* the last field, records joined by DELIM_RECORD (s33.py:42-51, 64, 98-105, 116)
RECURSIVE NatText(_)
NatText(n) ==
    IF n < 10 THEN <<Digits[n + 1]>>
    ELSE NatText(n \div 10) \o <<Digits[(n % 10) + 1]>>

IntText(n) == IF n < 0 THEN <<"-">> \o NatText(0 - n) ELSE NatText(n)

RECURSIVE ZeroPad(_, _)
ZeroPad(s, n) == IF Len(s) >= n THEN s ELSE ZeroPad(<<"0">> \o s, n)

FloatText(f) ==
    LET d == ZeroPad(NatText(IF f.num < 0 THEN 0 - f.num ELSE f.num), f.frac + 1)
        whole == SubSeq(d, 1, Len(d) - f.frac)
        part == SubSeq(d, Len(d) - f.frac + 1, Len(d))
    IN  (IF f.num < 0 THEN <<"-">> ELSE <<>>)
        \o whole \o (IF f.frac > 0 THEN <<".">> \o part ELSE <<>>)

RECURSIVE Join(_, _)
Join(texts, sep) ==
    IF Len(texts) = 0 THEN <<>>
    ELSE IF Len(texts) = 1 THEN texts[1]
    ELSE texts[1] \o sep \o Join(Tail(texts), sep)

DownstreamFields(c) ==
    <<IntText(c.channel_select), c.lock_status, c.channel_type,
      IntText(c.channel_id), IntText(c.frequency_hz), FloatText(c.power_dbmv),
      FloatText(c.snr_db), IntText(c.corrected_codewords_total),
      IntText(c.uncorrectable_codewords_total)>>

UpstreamFields(c) ==
    <<IntText(c.channel_select), c.lock_status, c.channel_type,
      IntText(c.channel_id), IntText(c.symbols_per_sec), IntText(c.frequency_hz),
      FloatText(c.power_dbmv)>>

Locked == <<"L", "o", "c", "k", "e", "d">>
QAM256 == <<"Q", "A", "M", "2", "5", "6">>
SC_QAM == <<"S", "C", "-", "Q", "A", "M">>

DownstreamSamples ==
    {[channel_select |-> 1, lock_status |-> Locked, channel_type |-> QAM256,
      channel_id |-> 1, frequency_hz |-> 600000000,
      power_dbmv |-> [num |-> 55, frac |-> 1], snr_db |-> [num |-> 402, frac |-> 1],
      corrected_codewords_total |-> 10, uncorrectable_codewords_total |-> 0],
     [channel_select |-> 2, lock_status |-> Locked, channel_type |-> QAM256,
      channel_id |-> 2, frequency_hz |-> 606000000,
      power_dbmv |-> [num |-> -12, frac |-> 1], snr_db |-> [num |-> 39, frac |-> 0],
      corrected_codewords_total |-> 0, uncorrectable_codewords_total |-> 3]}

UpstreamSamples ==
    {[channel_select |-> 1, lock_status |-> Locked, channel_type |-> SC_QAM,
      channel_id |-> 3, symbols_per_sec |-> 5120, frequency_hz |-> 17600000,
      power_dbmv |-> [num |-> 4375, frac |-> 2]],
     [channel_select |-> 2, lock_status |-> Locked, channel_type |-> SC_QAM,
      channel_id |-> 4, symbols_per_sec |-> 2560, frequency_hz |-> 24000000,
      power_dbmv |-> [num |-> 5, frac |-> 1]]}

\* the marker after the last field
Markers == {<<>>, <<"x">>}

\* the lists of 1 .. MaxRecords elements of S
Lists(S) == UNION {[1 .. k -> S] : k \in 1 .. MaxRecords}

\* a well-formed channel text with the records it encodes
DownstreamText(cells) ==
    Join([i \in 1 .. Len(cells) |->
              Join(DownstreamFields(cells[i].channel) \o <<cells[i].marker>>,
                   DELIM_FIELD)], DELIM_RECORD)

UpstreamText(cells) ==
    Join([i \in 1 .. Len(cells) |->
              Join(UpstreamFields(cells[i].channel) \o <<cells[i].marker>>,
                   DELIM_FIELD)], DELIM_RECORD)

Channels(cells) == [i \in 1 .. Len(cells) |-> cells[i].channel]

WellFormedDownstream ==
    {[channels |-> Channels(cells), text |-> DownstreamText(cells)] :
        cells \in Lists([channel : DownstreamSamples, marker : Markers])}

WellFormedUpstream ==
    {[channels |-> Channels(cells), text |-> UpstreamText(cells)] :
        cells \in Lists([channel : UpstreamSamples, marker : {<<>>}])}

\* malformed records: a field too few, a field too many, a word in a numeric
\* column, a decimal in an integer column
Word == <<"a", "b", "c">>
Malformed(fields, column) ==
    {Join(fields, DELIM_FIELD),
     Join(fields \o <<<<>>, <<>>>>, DELIM_FIELD),
     Join([fields EXCEPT ![column] = Word] \o <<<<>>>>, DELIM_FIELD),
     Join([fields EXCEPT ![column] = <<"5", ".", "5">>] \o <<<<>>>>, DELIM_FIELD)}

MalformedDownstreamRecords ==
    Malformed(DownstreamFields(CHOOSE c \in DownstreamSamples : TRUE), 5)

MalformedUpstreamRecords ==
    Malformed(UpstreamFields(CHOOSE c \in UpstreamSamples : TRUE), 6)

\* channel texts in which the record at one position is malformed and the
\* others are well-formed
OneMalformed(good, bad) ==
    {[at |-> i, text |-> Join([l EXCEPT ![i] = b], DELIM_RECORD)] :
        <<l, i, b>> \in {<<l, i, b>> \in Lists(good) \X (1 .. MaxRecords) \X bad :
                            i <= Len(l)}}

GoodDownstreamRecords ==
    {Join(DownstreamFields(c) \o <<<<>>>>, DELIM_FIELD) : c \in DownstreamSamples}

GoodUpstreamRecords ==
    {Join(UpstreamFields(c) \o <<<<>>>>, DELIM_FIELD) : c \in UpstreamSamples}

MalformedDownstream == OneMalformed(GoodDownstreamRecords, MalformedDownstreamRecords)
MalformedUpstream == OneMalformed(GoodUpstreamRecords, MalformedUpstreamRecords)

SomeDownstream == (CHOOSE w \in WellFormedDownstream : Len(w.channels) = 1).text
SomeUpstream == (CHOOSE w \in WellFormedUpstream : Len(w.channels) = 1).text

\* channel texts with an empty segment: the empty text of a modem that
\* reports no channel, a delimiter before the first record, one after the last
EmptySegment(good) ==
    {<<>>, DELIM_RECORD \o good, good \o DELIM_RECORD}

EmptySegmentDownstream == EmptySegment(SomeDownstream)
EmptySegmentUpstream == EmptySegment(SomeUpstream)

\* the CustomerConnDownstreamChannel and CustomerConnUpstreamChannel values
\* of a scrape response (s33.py:382-391)
ScrapeBodies ==
    {[down |-> d, up |-> SomeUpstream] :
        d \in {w.text : w \in WellFormedDownstream}
              \cup {m.text : m \in MalformedDownstream}
              \cup EmptySegmentDownstream}
    \cup {[down |-> SomeDownstream, up |-> u] :
        u \in {w.text : w \in WellFormedUpstream}
              \cup {m.text : m \in MalformedUpstream}
              \cup EmptySegmentUpstream}

\* ------------------------------------------------------- modem session
FALLBACK_KEY == "withoutloginkey"
SOAP_LOGIN == "\"http://purenetworks.com/HNAP1/Login\""
SOAP_GET_MULTIPLE == "\"http://purenetworks.com/HNAP1/GetMultipleHNAPs\""
password == "hunter2"
username == "admin"

\* time.time_ns() // 10**6 at the moments headers are built
Millis == 0 .. (2 * MillisMod - 1)

\* what the modem may answer
Statuses == {HTTP_OK, HTTP_NOT_FOUND, 500}
Uids == {"uid-1", "uid-2"}
TransportError == [neterr |-> TRUE, status |-> 0]
ChallengeResponses ==
    {TransportError}
    \cup {[neterr |-> FALSE, status |-> st,
           body |-> [PublicKey |-> "pub", Cookie |-> "uid-1", Challenge |-> "chal"]] :
             st \in Statuses \ {HTTP_OK}}
    \cup {[neterr |-> FALSE, status |-> HTTP_OK,
           body |-> [PublicKey |-> "pub", Cookie |-> u, Challenge |-> "chal"]] :
             u \in Uids}
LoginResponses ==
    {TransportError}
    \cup {[neterr |-> FALSE, status |-> st, body |-> [LoginResult |-> r]] :
             st \in Statuses, r \in {"OK", "FAILED"}}
ScrapeResponses ==
    {TransportError}
    \cup {[neterr |-> FALSE, status |-> st] : st \in Statuses \ {HTTP_OK}}
    \cup {[neterr |-> FALSE, status |-> HTTP_OK, body |-> b] : b \in ScrapeBodies}

\* exceptions
Exc(type, message) == [type |-> type, message |-> message]
Raise(exc) == [ok |-> FALSE, error |-> exc]
NetworkError == Exc("httpx.TransportError", "")

\* s33.py:205-208 (ispee), s33.py:201-204 and exception.py:28-33 (prober)
NotAuthenticated ==
    IF variant = "ispee"
    THEN Exc("ModemScrapeError",
             "Cannot add authentication cookie when login has not yet occurred.")
    ELSE Exc("NotAuthenticatedError",
             "Cannot add authentication header when login has not yet occurred.")

\* s33.py:346 (ispee), s33.py:341 (prober): the except clause of get_channel_info
CatchesNothing(exc) == FALSE
Catches(exc) ==
    IF variant = "ispee" THEN exc.type = "ModemScrapeError"
    ELSE exc.type = "NotAuthenticatedError"

\* s33.py:152-163; the digest is kept symbolic
_arris_hmac(key, msg) == "HMAC-MD5(" \o key \o "," \o msg \o ")"

\* s33.py:175
cur_time_millis(t) == ToString(t % MillisMod)

\* s33.py:165-182
_hnap_auth_header_value_raw_time(auth, soap_action, t) ==
    LET private_key == IF auth # None THEN auth[2] ELSE FALLBACK_KEY
    IN  _arris_hmac(private_key, cur_time_millis(t) \o soap_action)
        \o " " \o ToString(t)

_hnap_auth_header_value(auth, soap_action, t) ==
    LET private_key == IF auth # None THEN auth[2] ELSE FALLBACK_KEY
    IN  _arris_hmac(private_key, cur_time_millis(t) \o soap_action)
        \o " " \o cur_time_millis(t)

\* s33.py:210-214
Cookie(auth) == "Secure; Secure; uid=" \o auth[1] \o "; PrivateKey=" \o auth[2]

\* s33.py:184-216
_build_soap_action_headers_lenient(auth, soap_action, with_auth_cookies, t) ==
    IF with_auth_cookies
    THEN Ok([Accept |-> "application/json",
             SOAPACTION |-> soap_action,
             HNAP_AUTH |-> _hnap_auth_header_value(auth, soap_action, t),
             Cookie |-> IF auth = None THEN "" ELSE Cookie(auth)])
    ELSE Ok([Accept |-> "application/json",
             SOAPACTION |-> soap_action,
             HNAP_AUTH |-> _hnap_auth_header_value(auth, soap_action, t)])

_build_soap_action_headers(auth, soap_action, with_auth_cookies, t) ==
    IF with_auth_cookies /\ auth = None THEN Raise(NotAuthenticated)
    ELSE IF with_auth_cookies
    THEN Ok([Accept |-> "application/json",
             SOAPACTION |-> soap_action,
             HNAP_AUTH |-> _hnap_auth_header_value(auth, soap_action, t),
             Cookie |-> Cookie(auth)])
    ELSE Ok([Accept |-> "application/json",
             SOAPACTION |-> soap_action,
             HNAP_AUTH |-> _hnap_auth_header_value(auth, soap_action, t)])

\* s33.py:223-241, the request _request_login_challenge posts
ChallengeRequest(auth, t) ==
    [payload |-> [Action |-> "request", Username |-> username, LoginPassword |-> ""],
     headers |-> _build_soap_action_headers(auth, SOAP_LOGIN, FALSE, t).value]

\* s33.py:270-293, the request _submit_hmac_challenge posts
LoginRequest(auth, challenge_msg, t) ==
    [payload |-> [Action |-> "login", Username |-> username,
                  LoginPassword |-> _arris_hmac(auth[2], challenge_msg)],
     headers |-> _build_soap_action_headers(auth, SOAP_LOGIN, TRUE, t).value]

\* s33.py:333-361, the request get_channel_info posts
ScrapeRequest(headers) ==
    [payload |-> [Action |-> "GetMultipleHNAPs"], headers |-> headers]

\* s33.py:242
ChallengeRefusedOn404(status) == status = HTTP_NOT_FOUND
ChallengeRefused(status) == status # HTTP_OK

\* s33.py:315-321
StoredBeforeKey(uid, private_key) == <<uid, "">>
StoredFallbackKey(uid, private_key) == <<uid, FALLBACK_KEY>>
StoredPair(uid, private_key) == <<uid, private_key>>

\* s33.py:294-303
LoginRejectedByStatusOnly(status, login_result) == status # HTTP_OK
LoginRejected(status, login_result) == status # HTTP_OK \/ login_result # "OK"

\* s33.py:363
NeedsReloginUnlessOk(status) == status # HTTP_OK
NeedsRelogin(status) == status = HTTP_NOT_FOUND

\* s33.py:372-375 (ispee), s33.py:357 (prober)
StatusError(status) ==
    IF variant = "ispee"
    THEN Exc("ModemScrapeError",
             "Got " \o ToString(status) \o " status code when getting channel info")
    ELSE Exc("AssertionError", "")

\* an exception leaves get_channel_info, through every frame of the recursion
Propagate(exc) ==
    /\ s33_pc' = "idle"
    /\ result' = [kind |-> "raise", error |-> exc]
    /\ depth' = 0

\* s33.py:341-361, get_channel_info from its first line to its first await:
\* the scrape request is posted, or, the headers refused, _login's first one
Enter(auth, t, caught_so_far, result_so_far, nesting) ==
    LET built == _build_soap_action_headers(auth, SOAP_GET_MULTIPLE, TRUE, t)
    IN  IF built.ok
        THEN /\ request' = ScrapeRequest(built.value)
             /\ s33_pc' = "scrape"
             /\ caught' = caught_so_far
             /\ result' = result_so_far
             /\ depth' = nesting
        ELSE IF Catches(built.error)
        THEN /\ caught' = built.error
             /\ \E later \in Millis : request' = ChallengeRequest(auth, later)
             /\ s33_pc' = "challenge"
             /\ result' = result_so_far
             /\ depth' = nesting
        ELSE /\ Propagate(built.error)
             /\ caught' = caught_so_far
             /\ UNCHANGED request

\* s33.py:325, a caller awaits get_channel_info()
S33Call ==
    /\ s33_pc = "idle"
    /\ calls < MaxCalls
    /\ calls' = calls + 1
    /\ relogins' = 0
    /\ challenge_params' = None
    /\ response' = NoResponse
    /\ \E t \in Millis : Enter(_auth_uid_private_key, t, None, NoResult, 1)
    /\ UNCHANGED <<vars, jobvars, groupvars, variant, _auth_uid_private_key>>

\* s33.py:242-254 and 313-323, the answer to the challenge request; with a
\* challenge the pair is stored and the login request posted
ChallengeResponse ==
    /\ s33_pc = "challenge"
    /\ \E r \in ChallengeResponses :
          /\ response' = r
          /\ IF r.neterr
             THEN /\ Propagate(NetworkError)
                  /\ UNCHANGED <<_auth_uid_private_key, challenge_params, request>>
             ELSE IF ChallengeRefused(r.status)
             THEN /\ Propagate(Exc("ModemScrapeError",
                        "Got " \o ToString(r.status)
                        \o " status code when making 1st login request"))
                  /\ UNCHANGED <<_auth_uid_private_key, challenge_params, request>>
             ELSE \E t \in Millis :
                    LET params == [public_key |-> r.body.PublicKey,
                                   uid |-> r.body.Cookie,
                                   challenge_msg |-> r.body.Challenge]
                        private_key == _arris_hmac(params.public_key \o password,
                                                   params.challenge_msg)
                        stored == StoredPair(params.uid, private_key)
                    IN  /\ challenge_params' = params
                        /\ _auth_uid_private_key' = stored
                        /\ request' = LoginRequest(stored, params.challenge_msg, t)
                        /\ s33_pc' = "login"
                        /\ UNCHANGED <<result, depth>>
    /\ UNCHANGED <<vars, jobvars, groupvars, variant, relogins, caught, calls>>

\* s33.py:294-304 and 352-354 / 368-370, the answer to the login request; a
\* login accepted, get_channel_info calls itself
LoginResponse ==
    /\ s33_pc = "login"
    /\ \E r \in LoginResponses :
          /\ response' = r
          /\ IF r.neterr
             THEN /\ Propagate(NetworkError)
                  /\ UNCHANGED <<caught, request>>
             ELSE IF LoginRejected(r.status, r.body.LoginResult)
             THEN /\ Propagate(
                        IF r.status # HTTP_OK
                        THEN Exc("ModemScrapeError",
                                 "Got " \o ToString(r.status)
                                 \o " status code when making 2nd login request")
                        ELSE Exc("ModemScrapeError",
                                 "Got " \o r.body.LoginResult
                                 \o " login result (expecting OK)"))
                  /\ UNCHANGED <<caught, request>>
             ELSE \E t \in Millis :
                    Enter(_auth_uid_private_key, t, caught, result, depth + 1)
    /\ UNCHANGED <<vars, jobvars, groupvars, variant, _auth_uid_private_key, relogins,
                   challenge_params, calls>>

\* s33.py:363-394, the answer to the scrape request
ScrapeResponse ==
    /\ s33_pc = "scrape"
    /\ \E r \in ScrapeResponses :
          /\ response' = r
          /\ IF r.neterr
             THEN /\ Propagate(NetworkError)
                  /\ UNCHANGED <<relogins, request>>
             ELSE IF NeedsRelogin(r.status)
             THEN /\ relogins < MaxRelogins
                  /\ relogins' = relogins + 1
                  /\ \E t \in Millis :
                        request' = ChallengeRequest(_auth_uid_private_key, t)
                  /\ s33_pc' = "challenge"
                  /\ UNCHANGED <<result, depth>>
             ELSE IF r.status # HTTP_OK
             THEN /\ Propagate(StatusError(r.status))
                  /\ UNCHANGED <<relogins, request>>
             ELSE LET downstream == DownstreamParse(r.body.down)
                      upstream == UpstreamParse(r.body.up)
                  IN  /\ IF downstream.ok /\ upstream.ok
                         THEN /\ s33_pc' = "idle"
                              /\ depth' = 0
                              /\ result' = [kind |-> "return",
                                            downstream |-> downstream.value,
                                            upstream |-> upstream.value]
                         ELSE Propagate(Exc("ValueError", ""))
                      /\ UNCHANGED <<relogins, request>>
    /\ UNCHANGED <<vars, jobvars, groupvars, variant, _auth_uid_private_key,
                   challenge_params, caught, calls>>

\* the probe of SpecProbe, not called
ProbeUnused ==
    /\ kind = "icmp"
    /\ identifier = 0
    /\ sequence_number = 0
    /\ acknowledgment_number = 0
    /\ timeout_seconds = 1
    /\ clock = 0
    /\ sock = [state |-> "unopened", timeout |-> NoTimeout, id |-> 1]
    /\ seconds_left = 0
    /\ start = 0
    /\ tx_payload = <<>>
    /\ tx_time = 0
    /\ sent = <<>>
    /\ rx_packet = NoPacket
    /\ rx_time = 0
    /\ outcome = NoOutcome
    /\ pc = "call"
    /\ spent = 0
    /\ scopes = 0
    /\ matched = 0

S33Init ==
    /\ variant \in {"ispee", "prober"}
    /\ S33Fresh
    /\ ProbeUnused
    /\ frequency_seconds = [j \in Jobs |-> 1]
    /\ JobsFresh
    /\ GroupUnused

S33Next ==
    \/ S33Call
    \/ ChallengeResponse
    \/ LoginResponse
    \/ ScrapeResponse

SpecS33 == S33Init /\ [][S33Next]_allvars

\* ------------------------------------------- modem session properties
Authenticated == _auth_uid_private_key # None
Posted(action) == request # None /\ request.payload.Action = action
Answered == ~response.neterr /\ response.status # 0

\* get_channel_info ended on an OK answer to its scrape request
ScrapeAnswered ==
    /\ s33_pc = "idle"
    /\ Posted("GetMultipleHNAPs")
    /\ Answered
    /\ response.status = HTTP_OK

\* C12: in every reachable state the stored uid and private_key are both
\* present or both absent, whatever challenge requests, login submissions,
\* failures and scrapes came before.
C12_CredentialsBothOrNeither ==
    \/ _auth_uid_private_key = None
    \/ /\ Len(_auth_uid_private_key) = 2
       /\ _auth_uid_private_key[1] # ""
       /\ _auth_uid_private_key[2] # ""

\* a call that met a 404, logged in again and failed left the pair stored
C12_Witness ==
    /\ s33_pc = "idle"
    /\ result.kind = "raise"
    /\ relogins >= 1
    /\ Authenticated
    /\ calls = 2

\* C13: when the login action is answered with a non-OK status or with a
\* LoginResult other than "OK", the call fails with a scrape error and the
\* session keeps the (uid, private_key) derived from that challenge.
C13_RejectedLoginKeepsCredentials ==
    [][(s33_pc = "login" /\ ~response'.neterr
        /\ (response'.status # HTTP_OK \/ response'.body.LoginResult # "OK")) =>
            /\ s33_pc' = "idle"
            /\ result'.kind = "raise"
            /\ result'.error.type = "ModemScrapeError"
            /\ _auth_uid_private_key' =
                  <<challenge_params.uid,
                    _arris_hmac(challenge_params.public_key \o password,
                                challenge_params.challenge_msg)>>]_allvars

\* the modem answered the login action 200 with LoginResult FAILED
C13_Witness ==
    /\ s33_pc = "idle"
    /\ Posted("login")
    /\ Answered
    /\ response.status = HTTP_OK
    /\ response.body.LoginResult = "FAILED"
    /\ result.kind = "raise"
    /\ Authenticated

\* the texts cur_time_millis can take
Timestamps == {ToString(n) : n \in 0 .. (MillisMod - 1)}

\* C14: headers without the auth cookie are built in every session state;
\* when the session is unauthenticated HNAP_AUTH is the HMAC keyed with the
\* fallback key over timestamp + soap_action, followed by that same
\* timestamp, and there is no Cookie.
C14_ChallengeHeadersAlwaysBuilt ==
    [][(s33_pc' = "challenge" /\ s33_pc # "challenge") =>
          /\ DOMAIN request'.headers = {"Accept", "SOAPACTION", "HNAP_AUTH"}
          /\ request'.headers.SOAPACTION = SOAP_LOGIN
          /\ \E ts \in Timestamps :
                request'.headers.HNAP_AUTH =
                    _arris_hmac(IF Authenticated THEN _auth_uid_private_key[2]
                                ELSE "withoutloginkey", ts \o SOAP_LOGIN)
                    \o " " \o ts]_allvars

\* the challenge request of a session that has never logged in is in flight
C14_Witness ==
    /\ s33_pc = "challenge"
    /\ ~Authenticated
    /\ Posted("request")
    /\ "Cookie" \notin DOMAIN request.headers

\* C15: a cookie is attached only when the session is authenticated; asking
\* for cookie-bearing headers while unauthenticated fails with a
\* not-authenticated error that is not a network error, and never yields
\* headers with a missing or empty cookie.
C15_CookieOnlyWhenAuthenticated ==
    /\ [](request # None /\ "Cookie" \in DOMAIN request.headers =>
             /\ Authenticated
             /\ request.headers.Cookie # ""
             /\ request.headers.Cookie =
                   "Secure; Secure; uid=" \o _auth_uid_private_key[1]
                   \o "; PrivateKey=" \o _auth_uid_private_key[2])
    /\ [](Posted("GetMultipleHNAPs") \/ Posted("login") =>
             "Cookie" \in DOMAIN request.headers)
    /\ [][(s33_pc = "idle" /\ s33_pc' # "idle" /\ ~Authenticated) =>
             /\ caught' # None
             /\ caught'.type \in {"ModemScrapeError", "NotAuthenticatedError"}
             /\ caught'.type # "httpx.TransportError"
             /\ s33_pc' = "challenge"
             /\ "Cookie" \notin DOMAIN request'.headers]_allvars

\* the first call of a fresh session was refused its cookie-bearing headers
C15_Witness ==
    /\ caught # None
    /\ caught.type = "NotAuthenticatedError"
    /\ ~Authenticated
    /\ s33_pc = "challenge"

\* C16 (as claimed): within one call, a scrape request sent after a re-login
\* and again answered 404 surfaces the failure instead of logging in again.
C16_SecondExpiryIsSurfaced ==
    [][(s33_pc = "scrape" /\ relogins >= 1 /\ ~response'.neterr
        /\ response'.status = HTTP_NOT_FOUND) =>
            (s33_pc' = "idle" /\ result'.kind = "raise")]_allvars

\* C17: a scrape answer that is neither OK nor 404 fails the call with a
\* scrape error carrying that status code, performs no login and leaves the
\* stored credentials unchanged (ispee.s33).
C17_OtherStatusFailsWithoutLogin ==
    [][(variant = "ispee" /\ s33_pc = "scrape" /\ ~response'.neterr
        /\ response'.status \notin {HTTP_OK, HTTP_NOT_FOUND}) =>
            /\ s33_pc' = "idle"
            /\ result' = [kind |-> "raise",
                          error |-> [type |-> "ModemScrapeError",
                                     message |-> "Got " \o ToString(response'.status)
                                        \o " status code when getting channel info"]]
            /\ request' = request
            /\ _auth_uid_private_key' = _auth_uid_private_key]_allvars

\* an authenticated session's scrape request was answered 500
C17_Witness ==
    /\ variant = "ispee"
    /\ s33_pc = "idle"
    /\ Posted("GetMultipleHNAPs")
    /\ Answered
    /\ response.status = 500
    /\ result.kind = "raise"
    /\ Authenticated

\* C18: a downstream text of k >= 1 well-formed records joined by "|+|"
\* parses to exactly those k records in input order, each field from its
\* fixed position, whatever follows the last "^"; the upstream parser does
\* the same with its 7 positional fields.
C18_WellFormedTextParsesToItsRecords ==
    \A d \in WellFormedDownstream, u \in WellFormedUpstream :
        (ScrapeAnswered /\ response.body.down = d.text /\ response.body.up = u.text)
            => result = [kind |-> "return", downstream |-> d.channels,
                         upstream |-> u.channels]

\* two different downstream records, one with a non-empty marker, came back
\* in their order
C18_Witness ==
    /\ ScrapeAnswered
    /\ result.kind = "return"
    /\ Len(result.downstream) = 2
    /\ result.downstream[1].frequency_hz = 606000000
    /\ result.downstream[2].frequency_hz = 600000000
    /\ result.downstream[2].power_dbmv = [num |-> 55, frac |-> 1]
    /\ \E i \in 1 .. Len(response.body.down) : response.body.down[i] = "x"

\* C19: if any record of a channel text is malformed, whatever its position,
\* the parse fails as a whole: the caller never receives a list of the
\* records that preceded it.
C19_MalformedRecordFailsWholeParse ==
    ScrapeAnswered =>
        /\ (\E m \in MalformedDownstream : response.body.down = m.text) =>
               result = [kind |-> "raise", error |-> Exc("ValueError", "")]
        /\ (\E m \in MalformedUpstream : response.body.up = m.text) =>
               result = [kind |-> "raise", error |-> Exc("ValueError", "")]
        /\ result.kind = "return" =>
               /\ Len(result.downstream)
                     = Len(Split(response.body.down, DELIM_RECORD))
               /\ Len(result.upstream) = Len(Split(response.body.up, DELIM_RECORD))

\* the second of two downstream records was malformed and the call raised
C19_Witness ==
    /\ ScrapeAnswered
    /\ result.kind = "raise"
    /\ \E m \in MalformedDownstream : m.at = 2 /\ response.body.down = m.text

\* ------------------------------------------------------------ job loops
\* jobs.py:29, the time sleep_until(now + period) asks for
DeadlineWithoutPeriod(j) == periodic_now[j]
Deadline(j) == periodic_now[j] + frequency_seconds[j]

\* jobs.py:30, `now` after the sleep
NowAfterSleepScheduled(deadline, current_time) == deadline
NowAfterSleep(deadline, current_time) == current_time

\* jobs.py:45, `await self.measure()`: the loop resumes periodic only once
\* the measurement it started has ended
AwaitedOrNot(at) == at \in {"sleep", "measure"}
Awaited(at) == at = "sleep"

\* jobs.py:44-48, where loop() is after measure() ended: `except Exception`
\* logs and continues, so it is back in periodic either way
OnExceptionPropagate(raised) == IF raised THEN "stopped" ELSE "sleep"
OnException(raised) == "sleep"

\* __main__.py:21-23, start_soon gives every loop a task of its own: whether
\* the event loop may resume job j does not depend on the other jobs
RunnableInTurn(j) == \A i \in Jobs \ {j} : job_pc[i] # "measure"
Runnable(j) == TRUE

\* jobs.py:29, the sleep of job j is over and its task can be resumed
Due(j) == Awaited(job_pc[j]) /\ time >= Deadline(j) /\ Runnable(j)

\* jobs.py:26-28 and 41-45: loop() starts, periodic reads the clock and yields,
\* the first measure() is started
JobStart(j) ==
    /\ job_pc[j] = "start"
    /\ periodic_now' = [periodic_now EXCEPT ![j] = time]
    /\ fired' = [fired EXCEPT ![j] = Append(@, time)]
    /\ job_pc' = [job_pc EXCEPT ![j] = "measure"]
    /\ UNCHANGED <<vars, s33vars, groupvars, time, frequency_seconds, finished, unhandled>>

\* jobs.py:44-48 and 29: measure() returns or raises an Exception, which is
\* logged; either way periodic is resumed and sleeps until now + period
MeasureEnd(j) ==
    /\ job_pc[j] = "measure"
    /\ \E raised \in BOOLEAN :
          /\ unhandled' = [unhandled EXCEPT ![j] = raised]
          /\ job_pc' = [job_pc EXCEPT ![j] = OnException(raised)]
    /\ finished' = [finished EXCEPT ![j] = Append(@, time)]
    /\ UNCHANGED <<vars, s33vars, groupvars, time, frequency_seconds, periodic_now, fired>>

\* jobs.py:29-30, 28 and 45: the sleep ends, at once if the deadline has
\* passed; periodic reads the clock and yields, measure() is started
Wake(j) ==
    /\ Due(j)
    /\ Len(fired[j]) < MaxFires
    /\ periodic_now' = [periodic_now EXCEPT ![j] = NowAfterSleep(Deadline(j), time)]
    /\ fired' = [fired EXCEPT ![j] = Append(@, time)]
    /\ job_pc' = [job_pc EXCEPT ![j] = "measure"]
    /\ UNCHANGED <<vars, s33vars, groupvars, time, frequency_seconds, finished, unhandled>>

\* the event loop's clock moves on; the loops handed to start_soon
\* (__main__.py:22-23) have run up to their first measurement and a sleeper
\* whose deadline has come is woken before it does
JobTick ==
    /\ time < MaxTime
    /\ \A j \in Jobs : job_pc[j] # "start"
    /\ \A j \in Jobs : Len(fired[j]) < MaxFires => ~Due(j)
    /\ time' = time + 1
    /\ UNCHANGED <<vars, s33vars, groupvars, job_pc, periodic_now, frequency_seconds, fired,
                   finished, unhandled>>

JobsInit ==
    /\ frequency_seconds \in [Jobs -> 1 .. MaxPeriod]
    /\ JobsFresh
    /\ GroupUnused
    /\ ProbeUnused
    /\ variant = "ispee"
    /\ S33Fresh

JobsNext ==
    \/ \E j \in Jobs : JobStart(j)
    \/ \E j \in Jobs : MeasureEnd(j)
    \/ \E j \in Jobs : Wake(j)
    \/ JobTick

SpecJobs == JobsInit /\ [][JobsNext]_allvars

\* ---------------------------------------------------- job loop properties
\* C20: a job's next fire is at the previous fire + period whenever the
\* measurement finished within the period; when the measurement took at
\* least one period the next fire is at its completion, and the fires after
\* it follow from that fire: missed periods are not made up.
C20_NextFireIsPeriodOrCompletion ==
    \A j \in Jobs : \A k \in 1 .. (Len(fired[j]) - 1) :
        fired[j][k + 1] =
            IF finished[j][k] - fired[j][k] < frequency_seconds[j]
            THEN fired[j][k] + frequency_seconds[j]
            ELSE finished[j][k]

\* a measurement overran its period, the next fire came at its completion
\* and the one after it a period later, not at a missed boundary
C20_Witness ==
    \E j \in Jobs :
        /\ frequency_seconds[j] = 2
        /\ Len(fired[j]) = 3
        /\ finished[j][1] - fired[j][1] = 3
        /\ fired[j][2] = finished[j][1]
        /\ finished[j][2] > fired[j][2]
        /\ fired[j][3] = fired[j][2] + 2

\* the measurement of job j that is in flight, if any, is its latest fire
InFlight(j) == Len(fired[j]) - Len(finished[j])

\* C21: a job has at most one measurement in flight: the fires not yet ended
\* number one while the loop awaits measure() and none otherwise, and every
\* fire but the first starts no earlier than the end of the fire before it.
C21_OneMeasurementInFlight ==
    \A j \in Jobs :
        /\ InFlight(j) = (IF job_pc[j] = "measure" THEN 1 ELSE 0)
        /\ \A k \in 1 .. (Len(fired[j]) - 1) : finished[j][k] <= fired[j][k + 1]

\* a measurement ran past its period boundary and the next fire waited for
\* it; the third fire is now the only one in flight
C21_Witness ==
    \E j \in Jobs :
        /\ Len(fired[j]) = 3
        /\ Len(finished[j]) = 2
        /\ job_pc[j] = "measure"
        /\ finished[j][1] > fired[j][1] + frequency_seconds[j]
        /\ fired[j][2] = finished[j][1]

\* the time fire k + 1 of job j is due once fire k has ended
NextFire(j, k) ==
    IF finished[j][k] < fired[j][k] + frequency_seconds[j]
    THEN fired[j][k] + frequency_seconds[j]
    ELSE finished[j][k]

\* job j has gone on as scheduled after its k-th fire ended: the loop is
\* alive, the next fire came when it was due, and is not overdue if it has
\* not come yet
OnSchedule(j, k) ==
    /\ job_pc[j] \in {"sleep", "measure"}
    /\ Len(fired[j]) > k => fired[j][k + 1] = NextFire(j, k)
    /\ (Len(fired[j]) = k /\ k < MaxFires) => time <= NextFire(j, k)

\* C22: when the latest ended measure() of a job raised an error the loop
\* logged, the loop has not terminated and the job's next fire comes at the
\* next period boundary of its schedule, whatever the fires before it did.
C22_RaisedMeasureKeepsSchedule ==
    \A j \in Jobs : unhandled[j] => OnSchedule(j, Len(finished[j]))

\* the second fire raised and the third came one period after the second
C22_Witness ==
    \E j \in Jobs :
        /\ unhandled[j]
        /\ Len(finished[j]) = 2
        /\ Len(fired[j]) = 3
        /\ fired[j][3] = fired[j][2] + frequency_seconds[j]

\* C23: while a job is stalled in a measurement, or after its measurement
\* failed, every other job has fired on its own schedule and no loop has
\* terminated.
C23_JobsDoNotBlockEachOther ==
    \A i \in Jobs : \A j \in Jobs \ {i} :
        (job_pc[i] = "measure" \/ unhandled[i]) =>
            /\ job_pc[i] # "stopped"
            /\ \A k \in 1 .. Len(finished[j]) : OnSchedule(j, k)

\* one job has been stalled in its first measurement for three periods of
\* the other, which fired three times on time, its second fire failing
C23_Witness ==
    \E i \in Jobs : \E j \in Jobs \ {i} :
        /\ job_pc[i] = "measure"
        /\ fired[i] = <<0>>
        /\ frequency_seconds[j] = 1
        /\ fired[j] = <<0, 1, 2>>
        /\ Len(finished[j]) = 3
        /\ unhandled[j]

\* ------------------------------------------------------- configuration
\* a Python dict is a function on its keys, the empty dict the empty function
Has(obj, key) == key \in DOMAIN obj

\* dict.get(key, None)
Get(obj, key) == IF Has(obj, key) THEN obj[key] ELSE None

\* obj[key] of a dict without the key
KeyError(key) == Raise(Exc("KeyError", key))

\* config.py:19-24
PingConfig_from_python_object(obj) ==
    IF ~Has(obj, "name") THEN KeyError("name")
    ELSE IF ~Has(obj, "host") THEN KeyError("host")
    ELSE IF ~Has(obj, "types") THEN KeyError("types")
    ELSE Ok([name |-> obj.name, host |-> obj.host, types |-> obj.types])

\* config.py:32-36
ArrisS33ModemConfig_from_python_object(obj) ==
    IF ~Has(obj, "host") THEN KeyError("host")
    ELSE IF ~Has(obj, "password") THEN KeyError("password")
    ELSE Ok([host |-> obj.host, password |-> obj.password])

\* config.py:45-57; an empty modem block is falsy and is skipped as an absent
\* one, the first dict that lacks a key raises
Config_from_python_object(obj) ==
    LET arris_dict == Get(obj, "arris_s33_modem")
        arris_config ==
            IF arris_dict # None
            THEN ArrisS33ModemConfig_from_python_object(arris_dict)
            ELSE Ok(None)
        ping_objs == IF Has(obj, "pings") THEN obj.pings ELSE <<>>
        pings == [i \in 1 .. Len(ping_objs) |->
                      PingConfig_from_python_object(ping_objs[i])]
        failed == {i \in 1 .. Len(pings) : ~pings[i].ok}
    IN  IF ~arris_config.ok THEN arris_config
        ELSE IF failed # {}
        THEN pings[CHOOSE i \in failed : \A k \in failed : i <= k]
        ELSE Ok([arris_s33_modem_config |-> arris_config.value,
                 ip |-> Has(obj, "ip"),
                 pings |-> [i \in 1 .. Len(pings) |-> pings[i].value]])

\* config.py:70-75: the handler of KeyError builds a ConfigSchemaError and
\* drops it, and `return config` reads a name that was never bound
get_config(obj) ==
    LET loaded == Config_from_python_object(obj)
    IN  IF loaded.ok THEN loaded
        ELSE Raise(Exc("UnboundLocalError", "config"))

\* __main__.py:28-40, the jobs of one ping entry, in the order of its types
RECURSIVE PingJobsOf(_)
PingJobsOf(types) ==
    IF types = <<>> THEN <<>>
    ELSE (IF Head(types) = "icmp" THEN <<"icmp-ping">>
          ELSE IF Head(types) = "dns-udp" THEN <<"udp-dns-ping">>
          ELSE IF Head(types) = "dns-tcp" THEN <<"tcp-dns-ping">>
          ELSE <<>>) \o PingJobsOf(Tail(types))

RECURSIVE AllPingJobs(_)
AllPingJobs(pings) ==
    IF pings = <<>> THEN <<>>
    ELSE PingJobsOf(Head(pings).types) \o AllPingJobs(Tail(pings))

\* __main__.py:26-49
get_config_jobs(loaded) ==
    AllPingJobs(loaded.pings)
    \o (IF loaded.arris_s33_modem_config # None THEN <<"s33">> ELSE <<>>)
    \o (IF loaded.ip THEN <<"ip">> ELSE <<>>)

\* configuration files: complete ones, and ones in which a ping entry or the
\* modem block lacks a key
PingObject == [name |-> "dns", host |-> "192.0.2.1"]
ModemObject == [host |-> "192.168.100.1", password |-> "secret"]
TypeLists == {<<"icmp">>, <<"dns-udp">>, <<"dns-tcp">>, <<"icmp", "dns-udp">>}
CompleteConfigs ==
    {<<>>, [ip |-> TRUE], [arris_s33_modem |-> ModemObject]}
    \cup {[pings |-> <<[name |-> "dns", host |-> "192.0.2.1", types |-> t]>>] :
             t \in TypeLists}
    \cup {[pings |-> <<[name |-> "dns", host |-> "192.0.2.1", types |-> <<"icmp">>]>>,
           arris_s33_modem |-> ModemObject]}
IncompleteConfigs ==
    {[pings |-> <<[host |-> "192.0.2.1", types |-> <<"icmp">>]>>],
     [pings |-> <<[name |-> "dns", types |-> <<"icmp">>]>>],
     [pings |-> <<PingObject>>],
     [pings |-> <<[name |-> "dns", host |-> "192.0.2.1", types |-> <<"icmp">>],
                  [name |-> "dns"]>>],
     [arris_s33_modem |-> [host |-> "192.168.100.1"], ip |-> TRUE],
     [arris_s33_modem |-> <<>>, ip |-> TRUE],
     [arris_s33_modem |-> [password |-> "secret"],
      pings |-> <<[name |-> "dns", host |-> "192.0.2.1", types |-> <<"icmp">>]>>]}
ConfigObjects == CompleteConfigs \cup IncompleteConfigs

\* ----------------------------------------------------------- ping probes
\* exception.py:4-21 with Python's built-in classes: the classes of an
\* exception type, itself included
Bases(type) ==
    IF type = "TimeoutError" THEN {"TimeoutError", "PingError", "ISPeeError", "Exception"}
    ELSE IF type = "PingError" THEN {"PingError", "ISPeeError", "Exception"}
    ELSE IF type = "ModemScrapeError"
    THEN {"ModemScrapeError", "ISPeeError", "Exception"}
    ELSE IF type = "CancelledError" THEN {"CancelledError", "BaseException"}
    ELSE {type, "Exception"}

isinstance(exc, class) == class \in Bases(exc.type)

\* a float of seconds, kept as a fraction
Fraction(num, den) == [num |-> num, den |-> den]

\* what the awaited network operation of a probe may end with: icmplib's
\* async_ping (ping.py:26) and dns.asyncquery.udp / tcp (ping.py:46-53)
RoundTrips == {12, 250}
IcmpResponses ==
    {Ok([packet_loss |-> 0, avg_rtt |-> r]) : r \in RoundTrips}
    \cup {Ok([packet_loss |-> 1, avg_rtt |-> 0]),
          Raise(Exc("NameLookupError", ""))}
DnsResponses ==
    {Ok([time |-> Fraction(r, 1000)]) : r \in RoundTrips}
    \cup {Raise(Exc("dns.exception.Timeout", "")),
          Raise(Exc("ConnectionRefusedError", "")),
          Raise(Exc("OSError", ""))}

\* ping.py:19-31
icmp_ping(reply) ==
    IF ~reply.ok THEN reply
    ELSE IF reply.value.packet_loss > 0
    THEN Raise(Exc("TimeoutError", "icmp ping timed out"))
    ELSE Ok(Fraction(reply.value.avg_rtt, 1000))

\* ping.py:52-60 with the handler of ConnectionRefusedError left out
dns_ping_refusal_unhandled(dns_type, reply) ==
    IF dns_type \notin {"udp", "tcp"} THEN Raise(Exc("ValueError", "invalid dns_type"))
    ELSE IF reply.ok THEN Ok(reply.value.time)
    ELSE IF reply.error.type = "dns.exception.Timeout"
    THEN Raise(Exc("TimeoutError", "dns ping timed out"))
    ELSE reply

\* ping.py:34-60
dns_ping(dns_type, reply) ==
    IF dns_type \notin {"udp", "tcp"} THEN Raise(Exc("ValueError", "invalid dns_type"))
    ELSE IF reply.ok THEN Ok(reply.value.time)
    ELSE IF reply.error.type = "dns.exception.Timeout"
    THEN Raise(Exc("TimeoutError", "dns ping timed out"))
    ELSE IF reply.error.type = "ConnectionRefusedError"
    THEN Raise(Exc("PingError", "connection refused"))
    ELSE reply

\* jobs.py:82 and 95, the network operation and the probe_fn of a ping job
Responses(j) == IF j = "icmp-ping" THEN IcmpResponses ELSE DnsResponses
probe_fn(j, reply) ==
    IF j = "icmp-ping" THEN icmp_ping(reply)
    ELSE IF j = "udp-dns-ping" THEN dns_ping("udp", reply)
    ELSE dns_ping("tcp", reply)

\* jobs.py:107, `except PingError`, narrowed to the timeout class
HandledTimeoutOnly(exc) == isinstance(exc, "TimeoutError")
Handled(exc) == isinstance(exc, "PingError")

\* jobs.py:105-121, PingJob.measure once its probe has ended: what it adds
\* to the histogram, to the failure counter and to the total counter, and
\* how it ends
Observations(ended) == IF ended.ok THEN <<ended.value>> ELSE <<>>
Failures(ended) == IF ~ended.ok /\ Handled(ended.error) THEN 1 ELSE 0
TotalsOfSuccesses(ended) == IF ended.ok THEN 1 ELSE 0
Totals(ended) == IF ended.ok \/ Handled(ended.error) THEN 1 ELSE 0
PingMeasureEnds(ended) ==
    IF ended.ok \/ Handled(ended.error) THEN Ok(None) ELSE ended

\* -------------------------------------------------------------- modem job
\* what the job's `await self.scraper.get_channel_info()` may end with
\* (s33.py:341-377): the downstream channels, or one of its errors
ChannelInfoResults ==
    {Ok(w.channels) : w \in WellFormedDownstream}
    \cup {Raise(Exc("ModemScrapeError", "")), Raise(Exc("ValueError", "")),
          Raise(NetworkError)}

\* jobs.py:182-186, the label set of a channel
ChannelLabels(chan) ==
    [host |-> ModemObject.host,
     frequency_megahertz |-> ToString(chan.frequency_hz \div (10 ^ 6))]

\* jobs.py:188-213, the values the four gauges hold for a channel
ChannelGauges(chan) ==
    [labels |-> ChannelLabels(chan),
     power_dbmv |-> chan.power_dbmv,
     snr_db |-> chan.snr_db,
     corrected_codewords_total |-> chan.corrected_codewords_total,
     uncorrectable_codewords_total |-> chan.uncorrectable_codewords_total]

\* jobs.py:181-213, the gauges after the loop over the channels: a later
\* channel with the same labels overwrites an earlier one
RECURSIVE SetGauges(_, _)
SetGauges(gauges, channels) ==
    IF channels = <<>> THEN gauges
    ELSE SetGauges({g \in gauges : g.labels # ChannelLabels(Head(channels))}
                       \cup {ChannelGauges(Head(channels))},
                   Tail(channels))

\* ip.py:14-41, what get_self_ip may end with
SelfIpResults == {Ok("203.0.113.7"), Raise(Exc("builtins.TimeoutError", ""))}

\* ------------------------------------------------------------ task group
Range(seq) == {seq[i] : i \in 1 .. Len(seq)}

\* config.py:60-75 and __main__.py:94: main() loads the configuration, or
\* ends with the exception get_config raised
LoadConfig ==
    /\ main_pc = "get_config"
    /\ LET loaded == get_config(config_obj)
       IN  IF loaded.ok
           THEN /\ config' = loaded.value
                /\ main_pc' = "run"
                /\ UNCHANGED main_error
           ELSE /\ main_error' = loaded.error
                /\ main_pc' = "exited"
                /\ UNCHANGED config
    /\ UNCHANGED <<vars, s33vars, jobvars, config_obj, task_pc, cancel_called,
                   fires, awaited, probed, measured, metricvars>>

\* __main__.py:96-100 and 20-23: the server and one loop per configured job
\* are handed to the task group
StartTasks ==
    /\ main_pc = "run"
    /\ task_pc' = [t \in Tasks |->
                      IF t = "start_prometheus_server"
                         \/ t \in Range(get_config_jobs(config))
                      THEN "start" ELSE "absent"]
    /\ main_pc' = "start_tasks"
    /\ UNCHANGED <<vars, s33vars, jobvars, config_obj, config, main_error,
                   cancel_called, fires, awaited, probed, measured, metricvars>>

\* __main__.py:74-83, the server task runs up to `await server.serve()`
Serve ==
    /\ task_pc["start_prometheus_server"] = "start"
    /\ task_pc' = [task_pc EXCEPT !["start_prometheus_server"] = "serve"]
    /\ UNCHANGED <<vars, s33vars, jobvars, config_obj, config, main_pc,
                   main_error, cancel_called, fires, awaited, probed, measured,
                   metricvars>>

\* __main__.py:92, the state of the group's cancel scope after the server
\* task's last statement
ScopeLeftAlone(called) == called
ScopeAfterServe(called) == TRUE

\* __main__.py:83-92, serve() returns (uvicorn handled Ctrl-C), the task
\* cancels the scope of the group and ends
ServeReturns ==
    /\ task_pc["start_prometheus_server"] = "serve"
    /\ cancel_called' = ScopeAfterServe(cancel_called)
    /\ task_pc' = [task_pc EXCEPT !["start_prometheus_server"] = "done"]
    /\ UNCHANGED <<vars, s33vars, jobvars, config_obj, config, main_pc,
                   main_error, fires, awaited, probed, measured, metricvars>>

\* jobs.py:41-45 and 26-30: loop() starts, or its sleep ends; periodic yields
\* and measure() runs up to the await of its network operation
Fire(j) ==
    /\ task_pc[j] \in {"start", "sleep"}
    /\ ~cancel_called
    /\ fires[j] < MaxPings
    /\ fires' = [fires EXCEPT ![j] = @ + 1]
    /\ task_pc' = [task_pc EXCEPT ![j] = "measure"]
    /\ UNCHANGED <<vars, s33vars, jobvars, config_obj, config, main_pc,
                   main_error, cancel_called, awaited, probed, measured,
                   metricvars>>

\* jobs.py:44-48: measure() has ended; an Exception it raised is logged and
\* loop() goes back into periodic, which sleeps (jobs.py:29)
LoopAfter(j, ended) ==
    /\ measured' = [measured EXCEPT ![j] = ended]
    /\ task_pc' = [task_pc EXCEPT ![j] =
                      IF ended.ok \/ isinstance(ended.error, "Exception")
                      THEN "sleep" ELSE "cancelled"]

\* ping.py:19-60 and jobs.py:104-121: the network operation of a ping job
\* ends, the probe returns or raises and measure() records it
PingMeasured(j) ==
    /\ task_pc[j] = "measure"
    /\ ~cancel_called
    /\ \E reply \in Responses(j) :
          LET ended == probe_fn(j, reply)
          IN  /\ awaited' = [awaited EXCEPT ![j] = reply]
              /\ probed' = [probed EXCEPT ![j] = ended]
              /\ PING_DURATION_SECONDS_HISTOGRAM' =
                     [PING_DURATION_SECONDS_HISTOGRAM EXCEPT
                          ![j] = @ \o Observations(ended)]
              /\ PING_FAILURE_COUNTER' =
                     [PING_FAILURE_COUNTER EXCEPT ![j] = @ + Failures(ended)]
              /\ PING_COUNTER' = [PING_COUNTER EXCEPT ![j] = @ + Totals(ended)]
              /\ LoopAfter(j, PingMeasureEnds(ended))
    /\ UNCHANGED <<vars, s33vars, jobvars, config_obj, config, main_pc,
                   main_error, cancel_called, fires, CHANNEL_GAUGES, INFO>>

\* jobs.py:174-213: get_channel_info ends; its channels are written to the
\* gauges, its error leaves measure() as it came
ScrapeMeasured ==
    /\ task_pc["s33"] = "measure"
    /\ ~cancel_called
    /\ \E ended \in ChannelInfoResults :
          /\ awaited' = [awaited EXCEPT !["s33"] = ended]
          /\ probed' = [probed EXCEPT !["s33"] = ended]
          /\ CHANNEL_GAUGES' =
                 IF ended.ok THEN SetGauges(CHANNEL_GAUGES, ended.value)
                 ELSE CHANNEL_GAUGES
          /\ LoopAfter("s33", IF ended.ok THEN Ok(None) ELSE ended)
    /\ UNCHANGED <<vars, s33vars, jobvars, config_obj, config, main_pc,
                   main_error, cancel_called, fires,
                   PING_DURATION_SECONDS_HISTOGRAM, PING_FAILURE_COUNTER,
                   PING_COUNTER, INFO>>

\* jobs.py:228-230
IpMeasured ==
    /\ task_pc["ip"] = "measure"
    /\ ~cancel_called
    /\ \E ended \in SelfIpResults :
          /\ awaited' = [awaited EXCEPT !["ip"] = ended]
          /\ probed' = [probed EXCEPT !["ip"] = ended]
          /\ INFO' = IF ended.ok THEN [ip |-> ended.value] ELSE INFO
          /\ LoopAfter("ip", IF ended.ok THEN Ok(None) ELSE ended)
    /\ UNCHANGED <<vars, s33vars, jobvars, config_obj, config, main_pc,
                   main_error, cancel_called, fires,
                   PING_DURATION_SECONDS_HISTOGRAM, PING_FAILURE_COUNTER,
                   PING_COUNTER, CHANNEL_GAUGES>>

\* the cancelled scope raises CancelledError in a loop at the await it is
\* suspended in: the sleep of periodic (jobs.py:29) or the network operation
\* of measure() (ping.py:26, 53; s33.py; ip.py:24, 33). No handler on the
\* way catches it (ping.py:54-59, jobs.py:107, jobs.py:46) and the task ends.
\* An operation that completes as the scope is cancelled is the run in which
\* it completed first, so the other steps of a loop ask for an open scope
Cancelled(j) ==
    /\ cancel_called
    /\ task_pc[j] \in {"start", "sleep", "measure"}
    /\ IF task_pc[j] = "measure"
       THEN /\ awaited' = [awaited EXCEPT ![j] = Raise(Exc("CancelledError", ""))]
            /\ probed' = [probed EXCEPT ![j] = Raise(Exc("CancelledError", ""))]
            /\ LoopAfter(j, Raise(Exc("CancelledError", "")))
       ELSE /\ task_pc' = [task_pc EXCEPT ![j] = "cancelled"]
            /\ UNCHANGED <<awaited, probed, measured>>
    /\ UNCHANGED <<vars, s33vars, jobvars, config_obj, config, main_pc,
                   main_error, cancel_called, fires, metricvars>>

\* __main__.py:21 and 100: every task of the group has ended, the group is
\* left and run() returns
GroupExit ==
    /\ main_pc = "start_tasks"
    /\ \A t \in Tasks : task_pc[t] \in {"absent", "done", "cancelled"}
    /\ main_pc' = "exited"
    /\ UNCHANGED <<vars, s33vars, jobvars, config_obj, config, main_error,
                   task_pc, cancel_called, fires, awaited, probed, measured,
                   metricvars>>

GroupInit ==
    /\ config_obj \in ConfigObjects
    /\ GroupFresh
    /\ ProbeUnused
    /\ variant = "ispee"
    /\ S33Fresh
    /\ frequency_seconds = [j \in Jobs |-> 1]
    /\ JobsFresh

GroupNext ==
    \/ LoadConfig
    \/ StartTasks
    \/ Serve
    \/ ServeReturns
    \/ \E j \in GroupJobs : Fire(j)
    \/ \E j \in PingJobs : PingMeasured(j)
    \/ ScrapeMeasured
    \/ IpMeasured
    \/ \E j \in GroupJobs : Cancelled(j)
    \/ GroupExit

SpecGroup == GroupInit /\ [][GroupNext]_allvars

\* the event loop resumes a task the cancelled scope has an exception for,
\* and the group's exit once its tasks have ended
SpecGroupFair ==
    /\ SpecGroup
    /\ \A j \in GroupJobs : WF_allvars(Cancelled(j))
    /\ WF_allvars(GroupExit)

\* ------------------------------------------------- task group properties
\* the measure() of job j ends in this step and loop() goes on
MeasureReturnsToLoop(j) == task_pc[j] = "measure" /\ task_pc'[j] = "sleep"

DomainErrors == {"TimeoutError", "PingError"}

\* C24: in one fire of a ping job, a probe that returns a duration adds
\* exactly that one observation to the histogram and leaves the failure
\* counter alone; a probe that raises a domain error (timeout or ping error)
\* adds one to the failure counter, observes nothing, and measure() returns.
C24_PingFireRecordsOneOutcome ==
    [][\A j \in PingJobs : MeasureReturnsToLoop(j) =>
          /\ probed'[j].ok =>
                /\ PING_DURATION_SECONDS_HISTOGRAM'[j]
                       = Append(PING_DURATION_SECONDS_HISTOGRAM[j], probed'[j].value)
                /\ PING_FAILURE_COUNTER'[j] = PING_FAILURE_COUNTER[j]
          /\ (~probed'[j].ok /\ probed'[j].error.type \in DomainErrors) =>
                /\ PING_FAILURE_COUNTER'[j] = PING_FAILURE_COUNTER[j] + 1
                /\ PING_DURATION_SECONDS_HISTOGRAM'[j]
                       = PING_DURATION_SECONDS_HISTOGRAM[j]
                /\ measured'[j] = Ok(None)]_allvars

\* a ping job has fired twice: one probe returned a duration, the latest
\* was refused, a ping error that is not a timeout
C24_Witness ==
    \E j \in PingJobs :
        /\ task_pc[j] = "sleep"
        /\ fires[j] = 2
        /\ Len(PING_DURATION_SECONDS_HISTOGRAM[j]) = 1
        /\ PING_FAILURE_COUNTER[j] = 1
        /\ probed[j] = Raise(Exc("PingError", "connection refused"))
        /\ measured[j] = Ok(None)

\* C25: every fire of a ping job adds exactly one to the job's total
\* counter: once its fires have ended the counter equals their number,
\* whether they succeeded, failed with a domain error or raised another one.
C25_EveryFireCountsOnce ==
    \A j \in PingJobs : task_pc[j] = "sleep" => PING_COUNTER[j] = fires[j]

\* C26: a fire of the modem job whose scrape raised is recorded by an update
\* of a failure metric before the loop goes on.
C26_FailedScrapeUpdatesAMetric ==
    [][(MeasureReturnsToLoop("s33") /\ ~probed'["s33"].ok) =>
           metricvars' # metricvars]_allvars

\* every loop of the group has stopped
LoopsStopped == \A j \in GroupJobs : task_pc[j] \in {"absent", "cancelled"}

\* C27: once the server task has finished, having cancelled the scope of the
\* group, every job loop eventually stops and the group exits; a loop that
\* has stopped stays stopped and starts no further fire.
C27_CancellationStopsEveryLoop ==
    /\ (task_pc["start_prometheus_server"] = "done")
           ~> (LoopsStopped /\ main_pc = "exited")
    /\ [][\A j \in GroupJobs : task_pc[j] = "cancelled" =>
              (task_pc'[j] = "cancelled" /\ fires'[j] = fires[j])]_allvars

\* the group has exited after the cancellation stopped a loop that had
\* fired and one that was in a measurement
C27_Witness ==
    /\ main_pc = "exited"
    /\ cancel_called
    /\ LoopsStopped
    /\ \E j \in GroupJobs : task_pc[j] = "cancelled" /\ fires[j] = MaxPings
    /\ \E j \in GroupJobs : measured[j] = Raise(Exc("CancelledError", ""))

\* C28: a loop stopped by the cancellation has had its latest measurement
\* end by itself, returning or raising its own error: the network operation
\* in flight was left to complete or to time out.
C28_InFlightOperationCompletes ==
    \A j \in GroupJobs :
        (task_pc[j] = "cancelled" /\ fires[j] > 0) =>
            /\ measured[j] # None
            /\ measured[j].ok \/ isinstance(measured[j].error, "Exception")

\* C29: once main() is past loading a configuration in which a ping entry or
\* the modem block lacks a required key, it has ended with a
\* ConfigSchemaError and no task was started.
C29_MissingKeyIsSchemaError ==
    (config_obj \in IncompleteConfigs /\ main_pc # "get_config") =>
        /\ main_error # None
        /\ main_error.type = "ConfigSchemaError"
        /\ \A t \in Tasks : task_pc[t] = "absent"

DnsPingJobs == {"udp-dns-ping", "tcp-dns-ping"}

\* the fire of job j that ends in this step is counted as a failure and
\* measure() returns
CountedAsFailure(j) ==
    /\ PING_FAILURE_COUNTER'[j] = PING_FAILURE_COUNTER[j] + 1
    /\ measured'[j] = Ok(None)

\* C30: a DNS probe whose query timed out raises TimeoutError, one whose
\* target refused the connection raises a PingError that is not a
\* TimeoutError, and the ping job counts either as a failure without
\* raising; a probe whose query was answered returns the time the answer
\* reports.
C30_DnsProbeErrorKinds ==
    [][\A j \in DnsPingJobs : MeasureReturnsToLoop(j) =>
          /\ awaited'[j].ok => probed'[j] = Ok(awaited'[j].value.time)
          /\ awaited'[j] = Raise(Exc("dns.exception.Timeout", "")) =>
                /\ ~probed'[j].ok
                /\ probed'[j].error.type = "TimeoutError"
                /\ CountedAsFailure(j)
          /\ awaited'[j] = Raise(Exc("ConnectionRefusedError", "")) =>
                /\ ~probed'[j].ok
                /\ probed'[j].error.type = "PingError"
                /\ CountedAsFailure(j)]_allvars

\* a DNS ping job failed on both its fires, the latest by a refused connection
C30_Witness ==
    \E j \in DnsPingJobs :
        /\ task_pc[j] = "sleep"
        /\ awaited[j] = Raise(Exc("ConnectionRefusedError", ""))
        /\ probed[j].error.type = "PingError"
        /\ PING_FAILURE_COUNTER[j] = 2
        /\ PING_DURATION_SECONDS_HISTOGRAM[j] = <<>>

\* ------------------------------------------- properties, budget scopes
\* C31: a limit() scope entered with seconds_left > 0 sets the socket's
\* timeout to exactly the seconds_left of that moment, so the timeout under
\* which the k-th socket call of a probe runs is the initial budget minus
\* the time the k-1 scopes before it consumed.
C31_ScopeTimeoutIsRemainingBudget ==
    /\ [](InScope => sock.timeout = timeout_seconds - spent)
    /\ [][(AtLimit /\ seconds_left > 0 /\ pc' # pc) =>
            /\ pc' \in {"send_op", "recv_op"}
            /\ sock'.timeout = seconds_left
            /\ seconds_left' = seconds_left]_vars

\* the third socket call of a probe runs under a timeout that the two
\* scopes before it have shortened
C31_Witness ==
    /\ pc = "recv_op"
    /\ scopes = 2
    /\ spent >= 1
    /\ sock.timeout = timeout_seconds - spent
    /\ sock.timeout < timeout_seconds

\* C32: a TimeoutError raised by the socket call inside a limit() scope
\* reaches the probe's caller as ProbeTimeout, never as TimeoutError; an
\* error of another kind raised there reaches the caller as it was raised.
C32_SocketTimeoutSurfacesAsProbeTimeout ==
    /\ [](outcome.kind # "TimeoutError")
    /\ [][(InScope /\ pc' = "done") =>
            /\ outcome' \in {TranslatedOutcome, [kind |-> "OSError"]}
            /\ clock' - clock < sock.timeout => outcome' = [kind |-> "OSError"]]_vars

\* the receive of a probe whose request was sent ran into the socket's
\* timeout
C32_Witness ==
    /\ outcome = TranslatedOutcome
    /\ pc = "done"
    /\ scopes = 1
    /\ sent # <<>>
    /\ clock - start >= sock.timeout

\* ------------------------------------- properties, modem login and parse
\* the pair _login derives from the challenge it was given
DerivedPair(params) ==
    <<params.uid, _arris_hmac(params.public_key \o password, params.challenge_msg)>>

\* C33: when the challenge request is answered with a status other than OK,
\* the call fails with a scrape error, the login action is not posted and
\* the stored credentials are what they were: an unauthenticated session
\* stays unauthenticated.
C33_RefusedChallengeChangesNothing ==
    [][(s33_pc = "challenge" /\ ~response'.neterr /\ response'.status # HTTP_OK) =>
            /\ s33_pc' = "idle"
            /\ result'.kind = "raise"
            /\ result'.error.type = "ModemScrapeError"
            /\ request' = request
            /\ request.payload.Action = "request"
            /\ _auth_uid_private_key' = _auth_uid_private_key]_allvars

\* the challenge request of a session that never logged in was answered 500
C33_Witness ==
    /\ s33_pc = "idle"
    /\ Posted("request")
    /\ Answered
    /\ response.status = 500
    /\ result.kind = "raise"
    /\ result.error.type = "ModemScrapeError"
    /\ ~Authenticated

\* C34: the scrape request is never posted by an unauthenticated session: a
\* fresh session posts the challenge request first, the login action only
\* on the answer to a challenge request and the scrape request only on the
\* answer to that login, with the cookie of the credentials the login stored.
C34_ScrapeOnlyAfterLogin ==
    /\ [](Posted("GetMultipleHNAPs") =>
            /\ Authenticated
            /\ request.headers.Cookie = Cookie(_auth_uid_private_key))
    /\ [][(~Authenticated /\ calls' # calls) =>
            /\ s33_pc' = "challenge"
            /\ Posted("request")']_allvars
    /\ [][(Posted("login")' /\ request' # request) =>
            /\ s33_pc = "challenge"
            /\ Posted("request")]_allvars
    /\ [][(s33_pc = "login" /\ s33_pc' = "scrape") =>
            /\ Posted("login")
            /\ Posted("GetMultipleHNAPs")'
            /\ request'.headers.Cookie = Cookie(DerivedPair(challenge_params))]_allvars

\* the first call of a fresh session got through challenge and login and
\* its scrape request is out, with the cookie of the second uid
C34_Witness ==
    /\ calls = 1
    /\ relogins = 0
    /\ s33_pc = "scrape"
    /\ depth = 2
    /\ caught # None
    /\ Posted("GetMultipleHNAPs")
    /\ request.headers.Cookie = Cookie(DerivedPair(challenge_params))
    /\ challenge_params.uid = "uid-2"

\* C36: a session that holds credentials never loses them: no failed
\* challenge request, rejected login, 404 or other failed scrape clears the
\* stored pair, which changes only to the pair derived from a challenge
\* answered in that step.
C36_CredentialsNeverCleared ==
    [][Authenticated =>
          /\ Authenticated'
          /\ _auth_uid_private_key' # _auth_uid_private_key =>
                /\ s33_pc = "challenge"
                /\ response'.status = HTTP_OK
                /\ _auth_uid_private_key' =
                      DerivedPair([public_key |-> response'.body.PublicKey,
                                   uid |-> response'.body.Cookie,
                                   challenge_msg |-> response'.body.Challenge])]_allvars

\* an authenticated session whose scrape was answered 404 had its new
\* challenge request refused, and still holds its credentials
C36_Witness ==
    /\ s33_pc = "idle"
    /\ relogins = 1
    /\ Posted("request")
    /\ Answered
    /\ response.status # HTTP_OK
    /\ result.kind = "raise"
    /\ Authenticated
    /\ caught = None

\* C38: a channel text with an empty segment (the empty text, or a "|+|"
\* before the first or after the last record) does not parse to an empty or
\* shorter list: the parse fails as a whole.
C38_EmptySegmentFailsParse ==
    (/\ ScrapeAnswered
     /\ \/ response.body.down \in EmptySegmentDownstream
        \/ response.body.up \in EmptySegmentUpstream)
        => result = [kind |-> "raise", error |-> Exc("ValueError", "")]

\* the modem reported an empty downstream text and the call raised
C38_Witness ==
    /\ ScrapeAnswered
    /\ response.body.down = <<>>
    /\ Split(response.body.down, DELIM_RECORD) = <<<<>>>>
    /\ result.kind = "raise"

\* ------------------------------------ properties, counters and periods
\* C35: for every ping job, whenever none of its measurements is in
\* progress, its total counter equals the number of its duration
\* observations plus its failure counter, after fires that succeeded, failed
\* with a domain error or raised another error.
C35_TotalIsObservationsPlusFailures ==
    \A j \in PingJobs :
        task_pc[j] # "measure" =>
            PING_COUNTER[j]
                = Len(PING_DURATION_SECONDS_HISTOGRAM[j]) + PING_FAILURE_COUNTER[j]

\* a ping job has fired twice: one probe failed with a domain error and was
\* counted, the other raised an error of another kind and touched no metric
C35_Witness ==
    \E j \in PingJobs :
        /\ task_pc[j] = "sleep"
        /\ fires[j] = 2
        /\ PING_COUNTER[j] = 1
        /\ PING_FAILURE_COUNTER[j] = 1
        /\ PING_DURATION_SECONDS_HISTOGRAM[j] = <<>>
        /\ ~measured[j].ok

\* C37: for every job the start times of two consecutive fires are at least
\* one period apart, also right after an overrun and after a fire that
\* raised: no burst of catch-up fires.
C37_FiresAtLeastAPeriodApart ==
    \A j \in Jobs : \A k \in 1 .. (Len(fired[j]) - 1) :
        fired[j][k + 1] - fired[j][k] >= frequency_seconds[j]

\* the first fire overran its period, the second raised, and the third
\* came one period after the second
C37_Witness ==
    \E j \in Jobs :
        /\ Len(fired[j]) = 3
        /\ Len(finished[j]) = 2
        /\ unhandled[j]
        /\ finished[j][1] - fired[j][1] > frequency_seconds[j]
        /\ fired[j][2] = finished[j][1]
        /\ fired[j][3] - fired[j][2] = frequency_seconds[j]

\* ------------------------------------------------ one probe attempt, fair
\* One attempt followed to its end: the clock is followed far enough for
\* every scope the budget allows, and every receive scope takes time.
FairClock == MaxClock + MaxBudget + MaxOverhead
FairScopes == MaxBudget + 2

\* time a receive scope takes: the clock has moved when recv returns
RecvDurations(t) == OpDurations(t) \ {0}

FairSendLimit == LimitEnterWithin("send_limit", "send_op", FairScopes)
FairRecvLimit == LimitEnterWithin("recv_limit", "recv_op", FairScopes)
FairSendTimeout == LimitTimeoutWithin("send_op", FairClock)
FairRecvTimeout == LimitTimeoutWithin("recv_op", FairClock)
FairSendError == LimitErrorWithin("send_op", FairClock)
FairRecvError == LimitErrorWithin("recv_op", FairClock)

\* probe.py:150
FairIcmpSend ==
    /\ kind = "icmp"
    /\ pc = "send_op"
    /\ \E d \in OpDurations(sock.timeout) : LimitExitWithin(d, "recv_limit", FairClock)
    /\ sent' = Append(sent, IcmpRequest)
    /\ UNCHANGED rx_packet

\* probe.py:250
FairTcpSend ==
    /\ kind = "tcp"
    /\ pc = "send_op"
    /\ \E d \in OpDurations(sock.timeout) : LimitExitWithin(d, "recv_limit", FairClock)
    /\ sent' = Append(sent, TcpRequest)
    /\ UNCHANGED rx_packet

\* probe.py:160
FairIcmpRecv ==
    /\ kind = "icmp"
    /\ pc = "recv_op"
    /\ \E d \in RecvDurations(sock.timeout) : LimitExitWithin(d, "process", FairClock)
    /\ \E pkt \in IcmpPackets : rx_packet' = pkt
    /\ UNCHANGED sent

\* probe.py:255
FairTcpRecv ==
    /\ kind = "tcp"
    /\ pc = "recv_op"
    /\ \E d \in RecvDurations(sock.timeout) : LimitExitWithin(d, "process", FairClock)
    /\ \E pkt \in TcpPackets : rx_packet' = pkt
    /\ UNCHANGED sent

\* the steps of the probe itself: its code goes on, and a socket call under
\* a timeout returns or raises
ProbeStep ==
    \/ IcmpOpen
    \/ TcpOpen
    \/ FairSendLimit
    \/ FairRecvLimit
    \/ FairIcmpSend
    \/ FairTcpSend
    \/ FairSendTimeout
    \/ FairSendError
    \/ FairIcmpRecv
    \/ FairTcpRecv
    \/ FairRecvTimeout
    \/ FairRecvError
    \/ IcmpProcess
    \/ TcpProcess

ProbeFairNext ==
    \/ Tick
    \/ ProbeStep

\* one call of either probe, with every budget; the identifiers the caller
\* passes and the reading of the clock at the call are fixed
ProbeFairInit ==
    /\ ProbeInit
    /\ identifier = 0
    /\ sequence_number = 0
    /\ acknowledgment_number = 0
    /\ clock = 0

SpecProbeFair == ProbeFairInit /\ [][ProbeFairNext]_vars /\ WF_vars(ProbeStep)

====
